---- MODULE Spec2Model ----
(***************************************************************************)
(* Model of the Invoice aggregate (core/domain/aggregates/Invoice.ts) as   *)
(* built by InvoiceFactory (create / reconstitute).                        *)
(*                                                                         *)
(* Monetary amounts are exact decimals in the source (decimal.js); here    *)
(* they are integers counted in minor units of the currency (cents), so    *)
(* 240.00 EUR is Money(24000, "EUR").                                      *)
(*                                                                         *)
(* Line items are mutable objects: heap[r] holds the fields of object r,   *)
(* and lineItems is the private array _lineItems of object references.     *)
(***************************************************************************)
EXTENDS Integers, Sequences, FiniteSets, TLC

\* ------------------------------------------------------------------ bounds
\* Number of audit records an invoice may accumulate (one per successful call).
MaxHistory == 2

\* ------------------------------------------------------------- basic values
Undefined == "undefined"
Present == "present"
\* a timestamp that was never taken
NoDate == Undefined
NewDate == "date"
NoError == "none"
TypeError == "TypeError: Cannot read properties of undefined"
Void == [kind |-> "void"]

Money(amount, cur) == [amount |-> amount, currency |-> cur]

\* Money.isZero
isZero(m) == m.amount = 0

\* Money.equals
MoneyEquals(a, b) == a.currency = b.currency /\ a.amount = b.amount

\* Money.add / Money.subtract (same-currency operands)
MoneyAdd(a, b) == Money(a.amount + b.amount, a.currency)
MoneySubtract(a, b) == Money(a.amount - b.amount, a.currency)

\* InvoiceTotals.calculate
InvoiceTotalsCalculate(lineNet, allowance, charge, tax, prepaid, rounding) ==
    LET taxExclusive == MoneyAdd(MoneySubtract(lineNet, allowance), charge)
        taxInclusive == MoneyAdd(taxExclusive, tax)
        payable == MoneyAdd(MoneySubtract(taxInclusive, prepaid), rounding)
    IN [lineNetAmount |-> lineNet,
        allowanceTotalAmount |-> allowance,
        chargeTotalAmount |-> charge,
        taxExclusiveAmount |-> taxExclusive,
        taxTotalAmount |-> tax,
        taxInclusiveAmount |-> taxInclusive,
        prepaidAmount |-> prepaid,
        roundingAmount |-> rounding,
        payableAmount |-> payable]

\* InvoiceFactory.createEmptyTotals
createEmptyTotals(cur) ==
    LET zero == Money(0, cur)
    IN [lineNetAmount |-> zero,
        allowanceTotalAmount |-> zero,
        chargeTotalAmount |-> zero,
        taxExclusiveAmount |-> zero,
        taxTotalAmount |-> zero,
        taxInclusiveAmount |-> zero,
        prepaidAmount |-> zero,
        roundingAmount |-> zero,
        payableAmount |-> zero]

\* ValidationResult.success / ValidationResult.failure
ValidationResultSuccess(profile, warnings) ==
    [kind |-> "ValidationResult", profile |-> profile, isValid |-> TRUE,
     errors |-> <<>>, warnings |-> warnings]
ValidationResultFailure(profile, errors, warnings) ==
    [kind |-> "ValidationResult", profile |-> profile, isValid |-> FALSE,
     errors |-> errors, warnings |-> warnings]

\* ------------------------------------------------------------------ inputs
\* Line item objects a caller constructs and hands to addLineItem.
\* lineNumber 0 stands for "not set"; quantity is a Quantity (never negative).
LineItem(id, lineNumber, name, quantity, unitPrice, taxCategory, taxRate) ==
    [id |-> id, lineNumber |-> lineNumber, name |-> name, quantity |-> quantity,
     unitPrice |-> unitPrice, taxCategory |-> taxCategory, taxRate |-> taxRate]

ValidItems ==
    { LineItem("li-1", 0, "Widget", 2, 10000, "STANDARD", 20),
      LineItem("li-2", 5, "Service", 1, 5000, "STANDARD", 20) }

InvalidItems ==
    { LineItem("li-1", 0, "", 2, 10000, "STANDARD", 20),
      LineItem("li-1", 0, "Widget", 0, 10000, "STANDARD", 20),
      LineItem("li-1", 0, "Widget", 2, 0, "STANDARD", 20),
      LineItem("li-1", 0, "Widget", 2, 10000, Undefined, 20) }

NewItems == ValidItems \cup InvalidItems

\* Identifiers handed to removeLineItem and updateLineItem.
LineItemIds == {"li-1", "li-2"}

\* Partial<InvoiceLineItem> values passed to updateLineItem.
Updates == { [quantity |-> 3], [quantity |-> 0] }

\* Payments handed to applyPayment.
Payments ==
    { [amount |-> Money(24000, "EUR"), paymentDate |-> NewDate],
      [amount |-> Money(10000, "EUR"), paymentDate |-> NewDate],
      [amount |-> Money(0, "EUR"), paymentDate |-> NewDate],
      [amount |-> Money(10000, "EUR"), paymentDate |-> Undefined],
      [amount |-> Money(24000, "USD"), paymentDate |-> NewDate] }

\* Validation profiles handed to validate: one without rules, one with a
\* single mandatory rule (EN16931 BR-16: an invoice has at least one line).
RuleBR16 == [code |-> "BR-16", severity |-> "ERROR", expression |-> "count(lineItems) >= 1"]
ProfileEN16931 == [name |-> "EN16931", rules |-> <<>>]
ProfileCustom == [name |-> "CUSTOM", rules |-> <<RuleBR16>>]
Profiles == { ProfileEN16931, ProfileCustom }

OutputFormats == {"UBL_2_1"}

\* -------------------------------------------------------------------- state
VARIABLES
    documentStatus, transmissionStatus, paymentStatus,
    seller, buyer, issueDate, finalizedAt, currency, totals,
    heap, lineItems, validationResults,
    history, domainEvents,
    lastOp, lastError, returned,
    args, party, mappers, snapshot

aggregate == <<documentStatus, transmissionStatus, paymentStatus,
               seller, buyer, issueDate, finalizedAt, currency, totals,
               heap, lineItems, validationResults,
               history, domainEvents>>

vars == <<documentStatus, transmissionStatus, paymentStatus,
          seller, buyer, issueDate, finalizedAt, currency, totals,
          heap, lineItems, validationResults,
          history, domainEvents, lastOp, lastError, returned,
          args, party, mappers, snapshot>>

\* What the Invoice methods never touch: the arguments recorded for calls on
\* other classes, the Party aggregate and the MapperFactory registry.
elsewhere == <<args, party, mappers, snapshot>>

\* ------------------------------------------------------------ construction
\* InvoiceFactory.create: doValidate has checked seller, buyer and issue date.
InitCreate ==
    /\ documentStatus = "DRAFT"
    /\ transmissionStatus = "NOT_SENT"
    /\ paymentStatus = "UNPAID"
    /\ seller = Present
    /\ buyer = Present
    /\ issueDate = Present
    /\ finalizedAt = Undefined
    /\ currency = "EUR"
    /\ totals = createEmptyTotals("EUR")
    /\ heap = <<>>
    /\ lineItems = <<>>
    /\ validationResults = <<>>
    /\ history = <<>>
    /\ domainEvents = <<>>
    /\ lastOp = "create"
    /\ lastError = NoError
    /\ returned = Void

\* Persisted invoices handed to InvoiceFactory.reconstitute: every one holds
\* the line 2 x 100.00 EUR at 20% with totals for it, the last two with a
\* prepaid amount of 50.00 EUR.
PersistedLineItems == <<LineItem("li-1", 1, "Widget", 2, 10000, "STANDARD", 20)>>

PersistedTotals(prepaid) ==
    InvoiceTotalsCalculate(Money(20000, "EUR"), Money(0, "EUR"), Money(0, "EUR"),
                           Money(4000, "EUR"), Money(prepaid, "EUR"), Money(0, "EUR"))

PersistedFailure ==
    ValidationResultFailure(ProfileCustom, <<[code |-> "BR-16", severity |-> "ERROR"]>>, <<>>)

PersistedInvoices ==
    { [documentStatus |-> "DRAFT", seller |-> Present, buyer |-> Present,
       totals |-> PersistedTotals(0), validationResults |-> <<>>],
      [documentStatus |-> "DRAFT", seller |-> Present, buyer |-> Present,
       totals |-> PersistedTotals(5000), validationResults |-> <<PersistedFailure>>],
      [documentStatus |-> "DRAFT", seller |-> Undefined, buyer |-> Present,
       totals |-> PersistedTotals(0), validationResults |-> <<>>],
      [documentStatus |-> "DRAFT", seller |-> Present, buyer |-> Undefined,
       totals |-> PersistedTotals(0), validationResults |-> <<>>],
      [documentStatus |-> "FINALIZED", seller |-> Present, buyer |-> Undefined,
       totals |-> PersistedTotals(0), validationResults |-> <<>>] }

\* InvoiceFactory.reconstitute: every field is copied from the persisted data;
\* issueDate is always a Date object (new Date(data.issueDate)).
InitReconstitute ==
    \E data \in PersistedInvoices :
        /\ documentStatus = data.documentStatus
        /\ finalizedAt = IF data.documentStatus = "FINALIZED" THEN NewDate ELSE Undefined
        /\ transmissionStatus = "NOT_SENT"
        /\ paymentStatus = "UNPAID"
        /\ seller = data.seller
        /\ buyer = data.buyer
        /\ issueDate = Present
        /\ currency = "EUR"
        /\ heap = PersistedLineItems
        /\ lineItems = <<1>>
        /\ totals = data.totals
            /\ validationResults = data.validationResults
        /\ history = <<>>
        /\ domainEvents = <<>>
        /\ lastOp = "reconstitute"
        /\ lastError = NoError
        /\ returned = Void

\* No call on another class has been recorded.
NoArgs == [kind |-> "none"]

\* The Address objects a caller has built, by reference: a street, a city or
\* a postal code, and a country code, each optional.
Address(streetName, cityName, postalCode, countryCode) ==
    [streetName |-> streetName, cityName |-> cityName, postalCode |-> postalCode,
     countryCode |-> countryCode]

AddressHeap ==
    [address \in {"addr-1", "addr-2", "addr-3", "addr-4"} |->
        CASE address = "addr-1" -> Address("Main Street 1", "Berlin", "10115", "DE")
          [] address = "addr-2" -> Address("Rue de Rivoli 2", "Paris", Undefined, "FR")
          [] address = "addr-3" -> Address("High Street 3", "London", "N1 9GU", Undefined)
          [] address = "addr-4" -> Address("Ringstrasse 4", Undefined, Undefined, "AT")]

\* new Party(): the field initialisers of the class, and the objects on the
\* heap that its arrays can come to refer to.
NewParty ==
    [id |-> "party-1", legalName |-> "ACME GmbH",
     identifiers |-> <<>>, addresses |-> <<>>, contactPersons |-> <<>>,
     bankAccounts |-> <<>>, domainEvents |-> <<>>, heap |-> AddressHeap]

\* No snapshot of the party has been taken.
NoSnapshot == [kind |-> "none"]

\* MapperFactory's static initialiser: the five registrations, each key
\* bound to an instance of the named mapper class.
DefaultMappers ==
    [standard \in {"EN16931", "EU", "PEPPOL", "US", "ANSI_X12"} |->
        IF standard \in {"US", "ANSI_X12"} THEN "USMapper" ELSE "EN16931Mapper"]

\* The other classes while only the invoice is driven.
AtRest ==
    /\ args = NoArgs
    /\ party = NewParty
    /\ mappers = DefaultMappers
    /\ snapshot = NoSnapshot

Init == (InitCreate \/ InitReconstitute) /\ AtRest

\* ---------------------------------------------------------- private helpers
\* Each guard yields the message of the Error it throws, or NoError.

\* Invoice.validateLineItem
validateLineItem(item) ==
    IF item.name = "" THEN "Line item name is required"
    ELSE IF item.quantity <= 0 THEN "Line item quantity must be positive"
    ELSE IF item.unitPrice <= 0 THEN "Line item unit price must be positive"
    ELSE IF item.taxCategory = Undefined THEN "Line item tax category is required"
    ELSE NoError

\* Invoice.validatePayment
validatePayment(payment) ==
    IF payment.amount.amount <= 0 THEN "Payment amount must be positive"
    ELSE IF payment.paymentDate = Undefined THEN "Payment date is required"
    ELSE NoError

ensureNotFinalizedNever(status) == NoError

\* Invoice.ensureNotFinalized
ensureNotFinalized(status) ==
    IF status = "FINALIZED" THEN "Cannot modify finalized invoice" ELSE NoError

ensureFinalizedNever(status) == NoError

\* Invoice.ensureFinalized
ensureFinalized(status) ==
    IF status # "FINALIZED" THEN "Invoice must be finalized before this operation"
    ELSE NoError

validateForFinalizationNoSeller(items, s, b, d) ==
    IF Len(items) = 0 THEN "Invoice must have at least one line item"
    ELSE IF b = Undefined THEN "Buyer information is required"
    ELSE IF d = Undefined THEN "Issue date is required"
    ELSE NoError

\* Invoice.validateForFinalization
validateForFinalization(items, s, b, d) ==
    IF Len(items) = 0 THEN "Invoice must have at least one line item"
    ELSE IF s = Undefined THEN "Seller information is required"
    ELSE IF b = Undefined THEN "Buyer information is required"
    ELSE IF d = Undefined THEN "Issue date is required"
    ELSE NoError

\* Invoice.recalculateTotals: a placeholder with an empty body.
recalculateTotals(t, items, objects) == t

calculateRemainingAmountEcho(payment, cur) == payment.amount

\* Invoice.calculateRemainingAmount: a placeholder returning zero.
calculateRemainingAmount(payment, cur) == Money(0, cur)

\* Invoice.performValidation: a placeholder returning success.
performValidation(profile) == ValidationResultSuccess(profile, <<>>)

\* Invoice.addDomainEvent
addDomainEvent(events, event) == Append(events, event)

\* Invoice.addHistoryEvent
\* an audit trail that records nothing
addHistoryEventNone(h, eventType, data) == h

addHistoryEvent(h, eventType, data) == Append(h, [eventType |-> eventType, data |-> data])

\* Array.prototype.findIndex over _lineItems by item id (-1 when absent).
findIndex(items, objects, lineItemId) ==
    IF \E i \in 1..Len(items) : objects[items[i]].id = lineItemId
    THEN CHOOSE i \in 1..Len(items) :
            /\ objects[items[i]].id = lineItemId
            /\ \A j \in 1..(i - 1) : objects[items[j]].id # lineItemId
    ELSE -1

\* Array.prototype.splice(index, 1)
splice(items, index) == SubSeq(items, 1, index - 1) \o SubSeq(items, index + 1, Len(items))

\* The forEach of removeLineItem: item.lineNumber = idx + 1, in list order.
renumber(items, objects) ==
    [r \in DOMAIN objects |->
        IF \E i \in 1..Len(items) : items[i] = r
        THEN [objects[r] EXCEPT !.lineNumber =
                 CHOOSE i \in 1..Len(items) :
                    items[i] = r /\ \A j \in (i + 1)..Len(items) : items[j] # r]
        ELSE objects[r]]

\* addLineItem: "Assign line number if not set".
assignLineNumber(item, length) ==
    IF item.lineNumber = 0 THEN [item EXCEPT !.lineNumber = length + 1] ELSE item

\* Object.assign(item, updates)
ObjectAssign(item, updates) ==
    [f \in DOMAIN item |-> IF f \in DOMAIN updates THEN updates[f] ELSE item[f]]

\* ------------------------------------------------------------ call outcomes
\* A call that throws before it has written anything.
Throw(op, err) ==
    /\ lastOp' = op
    /\ lastError' = err
    /\ returned' = Void
    /\ UNCHANGED aggregate
    /\ UNCHANGED elsewhere

Return(op, value) ==
    /\ lastOp' = op
    /\ lastError' = NoError
    /\ returned' = value
    /\ UNCHANGED elsewhere

\* --------------------------------------------------------------- operations
\* Invoice.addLineItem(item): r is the reference of the object handed in and
\* item its fields at the time of the call.
addLineItem(r, item) ==
    IF validateLineItem(item) # NoError
    THEN Throw("addLineItem", validateLineItem(item))
    ELSE IF ensureNotFinalized(documentStatus) # NoError
    THEN Throw("addLineItem", ensureNotFinalized(documentStatus))
    ELSE /\ Len(history) < MaxHistory
         /\ LET numbered == assignLineNumber(item, Len(lineItems))
                objects == IF r \in DOMAIN heap
                           THEN [heap EXCEPT ![r] = numbered]
                           ELSE Append(heap, numbered)
                items == Append(lineItems, r)
            IN /\ heap' = objects
               /\ lineItems' = items
               /\ totals' = recalculateTotals(totals, items, objects)
               /\ domainEvents' = addDomainEvent(domainEvents,
                      [type |-> "InvoiceLineItemAdded", lineItemId |-> item.id,
                       productName |-> item.name, quantity |-> item.quantity,
                       unitPrice |-> Money(item.unitPrice, currency)])
               /\ history' = addHistoryEvent(history, "LINE_ITEM_ADDED",
                      [lineItemId |-> item.id, name |-> item.name])
         /\ Return("addLineItem", Void)
         /\ UNCHANGED <<documentStatus, transmissionStatus, paymentStatus, seller, buyer,
                        issueDate, finalizedAt, currency, validationResults>>

\* The caller passes a newly constructed item, or an object it already holds
\* (one that is, or once was, in the list).
AddLineItem ==
    \/ \E item \in NewItems : addLineItem(Len(heap) + 1, item)
    \/ \E r \in DOMAIN heap : addLineItem(r, heap[r])

\* Invoice.removeLineItem(lineItemId)
removeLineItem(lineItemId) ==
    IF ensureNotFinalized(documentStatus) # NoError
    THEN Throw("removeLineItem", ensureNotFinalized(documentStatus))
    ELSE IF findIndex(lineItems, heap, lineItemId) = -1
    THEN Throw("removeLineItem", "Line item not found")
    ELSE /\ Len(history) < MaxHistory
         /\ LET index == findIndex(lineItems, heap, lineItemId)
                removedItem == heap[lineItems[index]]
                items == splice(lineItems, index)
                objects == renumber(items, heap)
            IN /\ lineItems' = items
               /\ heap' = objects
               /\ totals' = recalculateTotals(totals, items, objects)
               /\ domainEvents' = addDomainEvent(domainEvents,
                      [type |-> "InvoiceLineItemRemoved", lineItemId |-> lineItemId,
                       productName |-> removedItem.name])
               /\ history' = addHistoryEvent(history, "LINE_ITEM_REMOVED",
                      [lineItemId |-> lineItemId, name |-> removedItem.name])
         /\ Return("removeLineItem", Void)
         /\ UNCHANGED <<documentStatus, transmissionStatus, paymentStatus, seller, buyer,
                        issueDate, finalizedAt, currency, validationResults>>

RemoveLineItem == \E lineItemId \in LineItemIds : removeLineItem(lineItemId)

\* Invoice.updateLineItem(lineItemId, updates): the updates are written into
\* the item before it is revalidated.
updateLineItem(lineItemId, updates) ==
    IF ensureNotFinalized(documentStatus) # NoError
    THEN Throw("updateLineItem", ensureNotFinalized(documentStatus))
    ELSE IF findIndex(lineItems, heap, lineItemId) = -1
    THEN Throw("updateLineItem", "Line item not found")
    ELSE LET r == lineItems[findIndex(lineItems, heap, lineItemId)]
             item == ObjectAssign(heap[r], updates)
             objects == [heap EXCEPT ![r] = item]
         IN IF validateLineItem(item) # NoError
            THEN /\ heap' = objects
                 /\ lastOp' = "updateLineItem"
                 /\ lastError' = validateLineItem(item)
                 /\ returned' = Void
                 /\ UNCHANGED <<documentStatus, transmissionStatus, paymentStatus, seller,
                                buyer, issueDate, finalizedAt, currency, totals, lineItems,
                                validationResults, history, domainEvents>>
                 /\ UNCHANGED elsewhere
            ELSE /\ Len(history) < MaxHistory
                 /\ heap' = objects
                 /\ totals' = recalculateTotals(totals, lineItems, objects)
                 /\ domainEvents' = addDomainEvent(domainEvents,
                        [type |-> "InvoiceLineItemUpdated", lineItemId |-> lineItemId,
                         updates |-> updates])
                 /\ history' = addHistoryEvent(history, "LINE_ITEM_UPDATED",
                        [lineItemId |-> lineItemId, updates |-> updates])
                 /\ Return("updateLineItem", Void)
                 /\ UNCHANGED <<documentStatus, transmissionStatus, paymentStatus, seller,
                                buyer, issueDate, finalizedAt, currency, lineItems,
                                validationResults>>

UpdateLineItem ==
    \E lineItemId \in LineItemIds, updates \in Updates : updateLineItem(lineItemId, updates)

\* The amount finalize() hands to InvoiceFinalizedEvent as totalAmount.
finalizedTotalAmount(t) == t.taxInclusiveAmount

\* Invoice.finalize()
Finalize ==
    IF ensureNotFinalized(documentStatus) # NoError
    THEN Throw("finalize", ensureNotFinalized(documentStatus))
    ELSE IF validateForFinalization(lineItems, seller, buyer, issueDate) # NoError
    THEN Throw("finalize", validateForFinalization(lineItems, seller, buyer, issueDate))
    ELSE /\ Len(history) < MaxHistory
         /\ documentStatus' = "FINALIZED"
         /\ finalizedAt' = NewDate
         /\ domainEvents' = addDomainEvent(domainEvents,
                [type |-> "InvoiceFinalized", totalAmount |-> finalizedTotalAmount(totals),
                 finalizedAt |-> NewDate])
         /\ history' = addHistoryEvent(history, "INVOICE_FINALIZED",
                [finalizedAt |-> NewDate])
         /\ Return("finalize", Void)
         /\ UNCHANGED <<transmissionStatus, paymentStatus, seller, buyer, issueDate,
                        currency, totals, heap, lineItems,
                        validationResults>>

\* Invoice.send(): transmissionStatus is assigned before the event is built
\* from this.buyer, so a missing buyer raises a TypeError after the assignment.
Send ==
    IF ensureFinalized(documentStatus) # NoError
    THEN Throw("send", ensureFinalized(documentStatus))
    ELSE IF buyer = Undefined
    THEN /\ transmissionStatus' = "SENT"
         /\ lastOp' = "send"
         /\ lastError' = TypeError
         /\ returned' = Void
         /\ UNCHANGED <<documentStatus, paymentStatus, seller, buyer, issueDate,
                        finalizedAt, currency, totals, heap, lineItems,
                        validationResults, history, domainEvents>>
         /\ UNCHANGED elsewhere
    ELSE /\ Len(history) < MaxHistory
         /\ transmissionStatus' = "SENT"
         /\ domainEvents' = addDomainEvent(domainEvents,
                [type |-> "InvoiceSent", transmissionMethod |-> "PEPPOL", sentAt |-> NewDate])
         /\ history' = addHistoryEvent(history, "INVOICE_SENT", [sentAt |-> NewDate])
         /\ Return("send", Void)
         /\ UNCHANGED <<documentStatus, paymentStatus, seller, buyer, issueDate,
                        finalizedAt, currency, totals, heap, lineItems,
                        validationResults>>

\* Invoice.applyPayment(payment)
applyPayment(payment) ==
    IF validatePayment(payment) # NoError
    THEN Throw("applyPayment", validatePayment(payment))
    ELSE /\ Len(history) < MaxHistory
         /\ LET remainingAmount == calculateRemainingAmount(payment, currency)
            IN /\ paymentStatus' = IF isZero(remainingAmount) THEN "PAID" ELSE "PARTIAL"
               /\ domainEvents' = addDomainEvent(domainEvents,
                      [type |-> "InvoicePaymentApplied", paymentAmount |-> payment.amount,
                       paymentDate |-> payment.paymentDate,
                       remainingAmount |-> remainingAmount])
         /\ history' = addHistoryEvent(history, "PAYMENT_APPLIED", [payment |-> payment])
         /\ Return("applyPayment", Void)
         /\ UNCHANGED <<documentStatus, transmissionStatus, seller, buyer, issueDate,
                        finalizedAt, currency, totals, heap, lineItems,
                        validationResults>>

ApplyPayment == \E payment \in Payments : applyPayment(payment)

storeValidationResultDropped(results, result) == results

\* validate(): this._validationResults.push(result)
storeValidationResult(results, result) == Append(results, result)

\* Invoice.validate(profile)
validate(profile) ==
    /\ Len(history) < MaxHistory
    /\ LET result == performValidation(profile)
       IN /\ validationResults' = storeValidationResult(validationResults, result)
          /\ domainEvents' = addDomainEvent(domainEvents,
                 [type |-> "InvoiceValidated", profile |-> profile,
                  isValid |-> result.isValid, errors |-> result.errors,
                  warnings |-> result.warnings])
          /\ history' = addHistoryEvent(history, "INVOICE_VALIDATED",
                 [profile |-> profile, result |-> result])
          /\ Return("validate", result)
    /\ UNCHANGED <<documentStatus, transmissionStatus, paymentStatus, seller, buyer,
                   issueDate, finalizedAt, currency, totals, heap, lineItems>>

Validate == \E profile \in Profiles : validate(profile)

\* Invoice.generateOutput(format)
generateOutput(format) ==
    IF ensureFinalized(documentStatus) # NoError
    THEN Throw("generateOutput", ensureFinalized(documentStatus))
    ELSE /\ Return("generateOutput", [kind |-> "Document"])
         /\ UNCHANGED aggregate

GenerateOutput == \E format \in OutputFormats : generateOutput(format)

\* Invoice.clearDomainEvents()
ClearDomainEvents ==
    /\ domainEvents' = <<>>
    /\ Return("clearDomainEvents", Void)
    /\ UNCHANGED <<documentStatus, transmissionStatus, paymentStatus, seller, buyer,
                   issueDate, finalizedAt, currency, totals, heap, lineItems,
                   validationResults, history>>

Next ==
    \/ AddLineItem
    \/ RemoveLineItem
    \/ UpdateLineItem
    \/ Finalize
    \/ Send
    \/ ApplyPayment
    \/ Validate
    \/ GenerateOutput
    \/ ClearDomainEvents

\* An invoice obtained from either factory method, driven by its methods.
Spec == Init /\ [][Next]_vars

\* ------------------------------------------------------- decimal arithmetic
(***************************************************************************)
(* A Decimal of decimal.js as the value objects use it: a sign and the     *)
(* digits of the coefficient, least significant first and without leading  *)
(* zeros, counted in minor units of the currency (so 0.01 EUR is the       *)
(* decimal 1).  The library is used with its default configuration:       *)
(* add, sub and mul round their result to DecimalPrecision significant    *)
(* digits (finalise), half away from zero; the constructor, negated and    *)
(* toDecimalPlaces do not.  MoneyAdd and MoneySubtract above are the same  *)
(* operations on the amounts of the Invoice model, which have fewer than   *)
(* ten digits and are never rounded.                                       *)
(***************************************************************************)
DecimalPrecision == 20

RECURSIVE ToDigits(_)
ToDigits(n) == IF n = 0 THEN <<>> ELSE <<n % 10>> \o ToDigits(n \div 10)

\* new Decimal(n) for an integer n of minor units
Decimal(n) == [neg |-> n < 0, digits |-> ToDigits(IF n < 0 THEN -n ELSE n)]

RECURSIVE Zeros(_)
Zeros(k) == IF k <= 0 THEN <<>> ELSE <<0>> \o Zeros(k - 1)

RECURSIVE StripZeros(_)
StripZeros(d) ==
    IF d = <<>> \/ d[Len(d)] # 0 THEN d ELSE StripZeros(SubSeq(d, 1, Len(d) - 1))

\* x + y on magnitudes
RECURSIVE AddDigits(_, _, _)
AddDigits(x, y, carry) ==
    IF x = <<>> /\ y = <<>>
    THEN IF carry = 0 THEN <<>> ELSE <<carry>>
    ELSE LET sum == (IF x = <<>> THEN 0 ELSE Head(x)) + (IF y = <<>> THEN 0 ELSE Head(y))
                    + carry
         IN <<sum % 10>> \o AddDigits(IF x = <<>> THEN x ELSE Tail(x),
                                      IF y = <<>> THEN y ELSE Tail(y), sum \div 10)

\* x - y on magnitudes, for x >= y
RECURSIVE SubDigits(_, _, _)
SubDigits(x, y, borrow) ==
    IF x = <<>>
    THEN <<>>
    ELSE LET diff == Head(x) - (IF y = <<>> THEN 0 ELSE Head(y)) - borrow
         IN <<diff % 10>> \o SubDigits(Tail(x), IF y = <<>> THEN y ELSE Tail(y),
                                       IF diff < 0 THEN 1 ELSE 0)

\* x < y on magnitudes without leading zeros
RECURSIVE LessDigits(_, _)
LessDigits(x, y) ==
    IF Len(x) # Len(y) THEN Len(x) < Len(y)
    ELSE IF x = <<>> THEN FALSE
    ELSE IF x[Len(x)] # y[Len(y)] THEN x[Len(x)] < y[Len(y)]
    ELSE LessDigits(SubSeq(x, 1, Len(x) - 1), SubSeq(y, 1, Len(y) - 1))

RECURSIVE TimesDigits(_, _, _)
TimesDigits(x, k, carry) ==
    IF x = <<>>
    THEN ToDigits(carry)
    ELSE LET product == Head(x) * k + carry
         IN <<product % 10>> \o TimesDigits(Tail(x), k, product \div 10)

\* The sign of a zero is dropped: Decimal.equals treats 0 and -0 alike.
Signed(neg, d) == [neg |-> neg /\ StripZeros(d) # <<>>, digits |-> StripZeros(d)]

\* Decimal.negated
negated(x) == Signed(~x.neg, x.digits)

\* The sum of two decimals before any rounding.
ExactPlus(x, y) ==
    IF x.neg = y.neg THEN Signed(x.neg, AddDigits(x.digits, y.digits, 0))
    ELSE IF LessDigits(x.digits, y.digits)
    THEN Signed(y.neg, SubDigits(y.digits, x.digits, 0))
    ELSE Signed(x.neg, SubDigits(x.digits, y.digits, 0))

ExactMinus(x, y) == ExactPlus(x, negated(y))

\* The digits of d without its k lowest, rounded half up on the magnitude.
RoundDrop(d, k) ==
    IF k <= 0 THEN d
    ELSE LET kept == IF Len(d) > k THEN SubSeq(d, k + 1, Len(d)) ELSE <<>>
         IN IF Len(d) >= k /\ d[k] >= 5 THEN AddDigits(kept, <<1>>, 0) ELSE kept

\* decimal.js finalise(x, precision, ROUND_HALF_UP)
finalise(x) ==
    LET k == Len(x.digits) - DecimalPrecision
    IN IF k <= 0 THEN x ELSE Signed(x.neg, Zeros(k) \o RoundDrop(x.digits, k))

\* Decimal.mul by a whole number k >= 0, before rounding to the precision
ExactTimes(x, k) == Signed(x.neg, TimesDigits(x.digits, k, 0))

\* Decimal.toDecimalPlaces: x counted in units 10^k times smaller than the
\* result's, rounded half up to a whole number of the result's units.
toDecimalPlaces(x, k) == Signed(x.neg, RoundDrop(x.digits, k))

\* ------------------------------------------------------------ value objects
\* An exception travelling up through the expression that raised it.
Thrown(message) == [thrown |-> message]
IsThrown(x) == "thrown" \in DOMAIN x

\* Money.assertSameCurrency: Currency.equals compares the codes.
assertSameCurrency(a, b) ==
    IF a.currency # b.currency
    THEN "Cannot perform operation on different currencies"
    ELSE NoError

\* Money.add / Money.subtract on decimal amounts of any size
add(a, b) ==
    IF IsThrown(a) THEN a
    ELSE IF assertSameCurrency(a, b) # NoError THEN Thrown(assertSameCurrency(a, b))
    ELSE Money(finalise(ExactPlus(a.amount, b.amount)), a.currency)

subtract(a, b) ==
    IF IsThrown(a) THEN a
    ELSE IF assertSameCurrency(a, b) # NoError THEN Thrown(assertSameCurrency(a, b))
    ELSE Money(finalise(ExactMinus(a.amount, b.amount)), a.currency)

\* Money.multiply by rate / 100 for a whole rate; every currency of the
\* model has two decimal places.
multiply(a, rate) ==
    Money(toDecimalPlaces(finalise(ExactTimes(a.amount, rate)), 2), a.currency)

\* Money.negate / Money.isNegative / Money.greaterThan (same-currency operands)
negate(a) == Money(negated(a.amount), a.currency)
isNegative(a) == a.amount.neg
greaterThan(a, b) ==
    ExactMinus(a.amount, b.amount) # Decimal(0) /\ ~ExactMinus(a.amount, b.amount).neg

\* new ValidationResult(profile, timestamp, isValid, errors, warnings, info):
\* the constructor freezes what it is given and checks nothing.
NewValidationResult(profile, isValid, errors, warnings) ==
    [kind |-> "ValidationResult", profile |-> profile, isValid |-> isValid,
     errors |-> errors, warnings |-> warnings]

TotalsFields ==
    <<"lineNetAmount", "allowanceTotalAmount", "chargeTotalAmount", "taxExclusiveAmount",
      "taxTotalAmount", "taxInclusiveAmount", "prepaidAmount", "roundingAmount",
      "payableAmount">>

\* InvoiceTotals.validate: the message of the error it throws, or NoError
InvoiceTotalsValidate(t) ==
    LET calculatedTaxExclusive ==
            add(subtract(t.lineNetAmount, t.allowanceTotalAmount), t.chargeTotalAmount)
        calculatedTaxInclusive == add(t.taxExclusiveAmount, t.taxTotalAmount)
        calculatedPayable ==
            add(subtract(t.taxInclusiveAmount, t.prepaidAmount), t.roundingAmount)
    IN IF IsThrown(calculatedTaxExclusive) THEN calculatedTaxExclusive.thrown
       ELSE IF ~MoneyEquals(t.taxExclusiveAmount, calculatedTaxExclusive)
       THEN "Tax exclusive amount must equal line net amount - allowances + charges"
       ELSE IF IsThrown(calculatedTaxInclusive) THEN calculatedTaxInclusive.thrown
       ELSE IF ~MoneyEquals(t.taxInclusiveAmount, calculatedTaxInclusive)
       THEN "Tax inclusive amount must equal tax exclusive amount + tax total"
       ELSE IF IsThrown(calculatedPayable) THEN calculatedPayable.thrown
       ELSE IF ~MoneyEquals(t.payableAmount, calculatedPayable)
       THEN "Payable amount must equal tax inclusive - prepaid + rounding"
       ELSE IF \E i \in 2..9 : t[TotalsFields[i]].currency # t.lineNetAmount.currency
       THEN "All total amounts must be in the same currency"
       ELSE NoError

\* new InvoiceTotals(...): the instance, or the exception of validate
NewInvoiceTotals(t) ==
    IF InvoiceTotalsValidate(t) # NoError THEN Thrown(InvoiceTotalsValidate(t)) ELSE t

\* InvoiceTotals.calculate on decimal amounts of any size
calculate(lineNet, allowance, charge, tax, prepaid, rounding) ==
    LET taxExclusive == add(subtract(lineNet, allowance), charge)
        taxInclusive == add(taxExclusive, tax)
        payable == add(subtract(taxInclusive, prepaid), rounding)
    IN IF IsThrown(taxExclusive) THEN taxExclusive
       ELSE IF IsThrown(taxInclusive) THEN taxInclusive
       ELSE IF IsThrown(payable) THEN payable
       ELSE NewInvoiceTotals(
                [lineNetAmount |-> lineNet,
                 allowanceTotalAmount |-> allowance,
                 chargeTotalAmount |-> charge,
                 taxExclusiveAmount |-> taxExclusive,
                 taxTotalAmount |-> tax,
                 taxInclusiveAmount |-> taxInclusive,
                 prepaidAmount |-> prepaid,
                 roundingAmount |-> rounding,
                 payableAmount |-> payable])

\* new TaxCategory(code, description, requiresRate, requiresExemption)
TaxCategory(code, requiresRate, requiresExemption) ==
    [code |-> code, requiresRate |-> requiresRate, requiresExemption |-> requiresExemption]

requiresExemptionReason(category) == category.requiresExemption
requiresTaxRate(category) == category.requiresRate

\* TaxBreakdown.calculateTaxAmount; taxRate is a whole percentage
calculateTaxAmount(b) ==
    IF b.taxRate = 0
    THEN Money(Decimal(0), b.taxAmount.currency)
    ELSE multiply(b.taxableAmount, b.taxRate)

\* TaxBreakdown.validate: the message of the error it throws, or NoError
TaxBreakdownValidate(b) ==
    LET tolerance == Money(Decimal(1), b.taxAmount.currency)
        difference == subtract(b.taxAmount, calculateTaxAmount(b))
    IN IF /\ requiresExemptionReason(b.taxCategory)
          /\ b.exemptionReason = Undefined
          /\ b.exemptionReasonCode = Undefined
       THEN "Tax category requires exemption reason or code"
       ELSE IF requiresTaxRate(b.taxCategory) /\ b.taxRate = 0
       THEN "Tax category requires tax rate greater than zero"
       ELSE IF ~requiresTaxRate(b.taxCategory) /\ b.taxRate # 0
       THEN "Tax category must have zero tax rate"
       ELSE IF b.taxableAmount.currency # b.taxAmount.currency
       THEN "Taxable amount and tax amount must be in the same currency"
       ELSE IF IsThrown(difference) THEN difference.thrown
       ELSE IF isNegative(difference)
       THEN IF greaterThan(negate(difference), tolerance)
            THEN "Tax amount does not match calculated amount"
            ELSE NoError
       ELSE IF greaterThan(difference, tolerance)
       THEN "Tax amount does not match calculated amount"
       ELSE NoError

\* new TaxBreakdown(...): the instance, or the exception of validate
NewTaxBreakdown(b) ==
    IF TaxBreakdownValidate(b) # NoError THEN Thrown(TaxBreakdownValidate(b)) ELSE b

\* ------------------------------------------------- value objects: the inputs
MaxAmount == 1

\* The amounts 0.00 .. 0.01, 100000000000000000000.01 with its 23 significant
\* digits, and 100000000000000000000.00.
SmallAmounts == { Decimal(n) : n \in 0..MaxAmount }
Huge == [neg |-> FALSE, digits |-> <<1>> \o Zeros(21) \o <<1>>]
HugeRounded == [neg |-> FALSE, digits |-> Zeros(22) \o <<1>>]
Currencies == {"EUR", "USD"}

Issues(severity) == { <<>>, <<[code |-> "BR-16", severity |-> severity]>> }

TotalsOf(ln, al, ch, te, tt, ti, pp, rn, pa) ==
    [lineNetAmount |-> ln,
     allowanceTotalAmount |-> al,
     chargeTotalAmount |-> ch,
     taxExclusiveAmount |-> te,
     taxTotalAmount |-> tt,
     taxInclusiveAmount |-> ti,
     prepaidAmount |-> pp,
     roundingAmount |-> rn,
     payableAmount |-> pa]

\* Nine amounts in EUR (every combination of the small amounts, and the huge
\* line net amount with each total near it), and totals whose equations hold
\* with one of the nine amounts in USD.
TotalsInputs ==
    { TotalsOf(Money(ln, "EUR"), Money(al, "EUR"), Money(ch, "EUR"), Money(te, "EUR"),
               Money(tt, "EUR"), Money(ti, "EUR"), Money(pp, "EUR"), Money(rn, "EUR"),
               Money(pa, "EUR")) :
        ln \in SmallAmounts \cup {Huge}, al \in SmallAmounts, ch \in SmallAmounts,
        te \in SmallAmounts \cup {Huge, HugeRounded},
        tt \in SmallAmounts, ti \in SmallAmounts \cup {Huge, HugeRounded},
        pp \in SmallAmounts, rn \in SmallAmounts,
        pa \in SmallAmounts \cup {Huge, HugeRounded} }
    \cup
    { [TotalsOf(Money(Decimal(1), "EUR"), Money(Decimal(0), "EUR"), Money(Decimal(0), "EUR"),
                Money(Decimal(1), "EUR"), Money(Decimal(1), "EUR"), Money(Decimal(2), "EUR"),
                Money(Decimal(0), "EUR"), Money(Decimal(0), "EUR"), Money(Decimal(2), "EUR"))
          EXCEPT ![TotalsFields[i]].currency = "USD"] : i \in 1..9 }

TaxCategories ==
    { TaxCategory("STANDARD", TRUE, FALSE), TaxCategory("ZERO", FALSE, FALSE),
      TaxCategory("EXEMPT", FALSE, TRUE), TaxCategory("LOCAL", TRUE, TRUE) }

TaxRates == {0, 20, 50}

\* Taxable amounts 0.00, 0.03, 10.50, 100.00 and the tax amounts around what
\* 20% and 50% of them give.
TaxAmounts ==
    { [taxable |-> Decimal(t), tax |-> Decimal(x)] :
        t \in {0, 3, 1050, 10000}, x \in {0, 1, 2, 3, 209, 210, 211, 212, 2000, 2001, 2002} }

TaxBreakdownInputs ==
    { [taxableAmount |-> Money(a.taxable, "EUR"), taxAmount |-> Money(a.tax, cur),
       taxCategory |-> category, taxRate |-> rate,
       exemptionReason |-> reason, exemptionReasonCode |-> code] :
        a \in TaxAmounts, cur \in Currencies, category \in TaxCategories, rate \in TaxRates,
        reason \in {Undefined, "Intra-community supply"}, code \in {Undefined, "VATEX-EU-IC"} }

MoneyInputs == { Money(amount, cur) : amount \in SmallAmounts \cup {Huge}, cur \in Currencies }

\* ---------------------------------------------- value objects: the calls
\* The outcome of a call on a value object or a static method.
Outcome(op, arguments, result) ==
    /\ lastOp' = op
    /\ args' = arguments
    /\ lastError' = IF IsThrown(result) THEN result.thrown ELSE NoError
    /\ returned' = IF IsThrown(result) THEN Void ELSE result
    /\ UNCHANGED <<aggregate, party, mappers, snapshot>>

\* Value objects keep nothing between calls: a behaviour makes one call.
NoCallYet == args = NoArgs

ConstructValidationResult ==
    /\ NoCallYet
    /\ \E isValid \in BOOLEAN, errors \in Issues("ERROR"), warnings \in Issues("WARNING") :
          Outcome("new ValidationResult",
                  [isValid |-> isValid, errors |-> errors, warnings |-> warnings],
                  NewValidationResult("EN16931", isValid, errors, warnings))

Success ==
    /\ NoCallYet
    /\ \E warnings \in Issues("WARNING") :
          Outcome("ValidationResult.success", [warnings |-> warnings],
                  ValidationResultSuccess("EN16931", warnings))

Failure ==
    /\ NoCallYet
    /\ \E errors \in Issues("ERROR"), warnings \in Issues("WARNING") :
          Outcome("ValidationResult.failure", [errors |-> errors, warnings |-> warnings],
                  ValidationResultFailure("EN16931", errors, warnings))

ConstructInvoiceTotals ==
    /\ NoCallYet
    /\ \E t \in TotalsInputs : Outcome("new InvoiceTotals", t, NewInvoiceTotals(t))

Calculate ==
    /\ NoCallYet
    /\ \E lineNet \in MoneyInputs, allowance \in MoneyInputs, charge \in MoneyInputs,
          tax \in MoneyInputs, prepaid \in MoneyInputs :
          Outcome("InvoiceTotals.calculate",
                  [lineNet |-> lineNet, allowance |-> allowance, charge |-> charge,
                   tax |-> tax, prepaid |-> prepaid, rounding |-> Money(Decimal(0), "EUR")],
                  calculate(lineNet, allowance, charge, tax, prepaid,
                            Money(Decimal(0), "EUR")))

ConstructTaxBreakdown ==
    /\ NoCallYet
    /\ \E b \in TaxBreakdownInputs : Outcome("new TaxBreakdown", b, NewTaxBreakdown(b))

\* a.add(b).subtract(b)
AddThenSubtract ==
    /\ NoCallYet
    /\ \E a \in MoneyInputs, b \in MoneyInputs :
          Outcome("add.subtract", [a |-> a, b |-> b], subtract(add(a, b), b))

InitValues == InitCreate /\ AtRest

\* The life of an invoice that InvoiceFactory.create has built.
SpecCreated == InitValues /\ [][Next]_vars

NextValues ==
    \/ ConstructValidationResult
    \/ Success
    \/ Failure
    \/ ConstructInvoiceTotals
    \/ Calculate
    \/ ConstructTaxBreakdown
    \/ AddThenSubtract

\* One call on a value object, with arguments the caller has built.
SpecValues == InitValues /\ [][NextValues]_vars

\* ----------------------------------------------------------- standard mappers
(***************************************************************************)
(* EN16931Mapper and USMapper.  A table is the object literal of the       *)
(* source: its entries in the order written, which is the order            *)
(* Object.entries walks.  A mapper holds nothing but its tables, so an     *)
(* instance is named by its class.                                         *)
(***************************************************************************)
MapperClasses == {"EN16931Mapper", "USMapper"}

invoiceTypeMap(m) ==
    IF m = "EN16931Mapper"
    THEN << <<"STANDARD", "380">>, <<"CREDIT_NOTE", "381">>, <<"DEBIT_NOTE", "383">>,
            <<"CORRECTED", "384">>, <<"PREPAYMENT", "386">>, <<"SELF_BILLED", "389">>,
            <<"PROFORMA", "325">>, <<"RECURRING", "380">> >>
    ELSE << <<"STANDARD", "INV">>, <<"CREDIT_NOTE", "CM">>, <<"DEBIT_NOTE", "DM">>,
            <<"CORRECTED", "COR">>, <<"PREPAYMENT", "PRE">>, <<"SELF_BILLED", "SBI">>,
            <<"PROFORMA", "PRO">>, <<"RECURRING", "REC">> >>

taxCategoryMap(m) ==
    IF m = "EN16931Mapper"
    THEN << <<"STANDARD", "S">>, <<"REDUCED", "S">>, <<"ZERO", "Z">>, <<"EXEMPT", "E">>,
            <<"REVERSE_CHARGE", "AE">>, <<"EXPORT", "G">>, <<"NOT_APPLICABLE", "O">>,
            <<"SPECIAL", "S">> >>
    ELSE << <<"STANDARD", "TAX">>, <<"REDUCED", "RED">>, <<"ZERO", "ZER">>,
            <<"EXEMPT", "EXE">>, <<"REVERSE_CHARGE", "N/A">>, <<"EXPORT", "EXP">>,
            <<"NOT_APPLICABLE", "NON">>, <<"SPECIAL", "SPE">> >>

addressSchemeMap(m) ==
    IF m = "EN16931Mapper"
    THEN << <<"EMAIL", "0201">>, <<"URL", "0202">>, <<"NETWORK_ID", "0088">>,
            <<"TAX_ID", "9902">>, <<"COMPANY_ID", "0002">>, <<"GLOBAL_ID", "0088">>,
            <<"NATIONAL_ID", "9999">>, <<"CUSTOM", "9999">> >>
    ELSE << <<"EMAIL", "EMAIL">>, <<"URL", "WEB">>, <<"NETWORK_ID", "EDI">>,
            <<"TAX_ID", "EIN">>, <<"COMPANY_ID", "DUNS">>, <<"GLOBAL_ID", "GLN">>,
            <<"NATIONAL_ID", "SSN">>, <<"CUSTOM", "OTHER">> >>

outputFormatMap(m) ==
    IF m = "EN16931Mapper"
    THEN << <<"XML", "UBL">>, <<"JSON", "JSON">>, <<"PDF", "PDF">>,
            <<"HYBRID_PDF", "PDF/A-3">>, <<"CSV", "CSV">>, <<"EDI", "EDIFACT">>,
            <<"CUSTOM", "CUSTOM">> >>
    ELSE << <<"XML", "XML">>, <<"JSON", "JSON">>, <<"PDF", "PDF">>, <<"HYBRID_PDF", "PDF">>,
            <<"CSV", "CSV">>, <<"EDI", "X12">>, <<"CUSTOM", "CUSTOM">> >>

\* Names every object literal inherits from Object.prototype, and what a read
\* of one yields: a function, never a string.
ObjectPrototype == {"constructor", "toString"}
InheritedFunction == "function () { [native code] }"

HasOwn(table, key) == \E i \in 1..Len(table) : table[i][1] = key

\* table[key]: the own entry, else what the prototype holds, else undefined
PropertyGet(table, key) ==
    IF HasOwn(table, key)
    THEN table[CHOOSE i \in 1..Len(table) : table[i][1] = key][2]
    ELSE IF key \in ObjectPrototype THEN InheritedFunction
    ELSE Undefined

\* value || fallback
OrElse(value, fallback) == IF value = Undefined THEN fallback ELSE value

mapInvoiceType(m, domainType) ==
    OrElse(PropertyGet(invoiceTypeMap(m), domainType),
           IF m = "EN16931Mapper" THEN "380" ELSE "INV")

mapTaxCategory(m, domainCategory) ==
    OrElse(PropertyGet(taxCategoryMap(m), domainCategory),
           IF m = "EN16931Mapper" THEN "S" ELSE "TAX")

mapAddressScheme(m, domainScheme) ==
    OrElse(PropertyGet(addressSchemeMap(m), domainScheme),
           IF m = "EN16931Mapper" THEN "9999" ELSE "OTHER")

mapOutputFormat(m, domainFormat) ==
    OrElse(PropertyGet(outputFormatMap(m), domainFormat),
           IF m = "EN16931Mapper" THEN "UBL" ELSE "XML")

\* Object.entries(table).find(([_, value]) => value === standard): the key of
\* the first entry holding the value, or the canonical STANDARD
findLast(table, standard) ==
    IF \E i \in 1..Len(table) : table[i][2] = standard
    THEN table[CHOOSE i \in 1..Len(table) :
                  /\ table[i][2] = standard
                  /\ \A j \in (i + 1)..Len(table) : table[j][2] # standard][1]
    ELSE "STANDARD"

find(table, standard) ==
    IF \E i \in 1..Len(table) : table[i][2] = standard
    THEN table[CHOOSE i \in 1..Len(table) :
                  /\ table[i][2] = standard
                  /\ \A j \in 1..(i - 1) : table[j][2] # standard][1]
    ELSE "STANDARD"

reverseMapInvoiceType(m, standardType) == find(invoiceTypeMap(m), standardType)
reverseMapTaxCategory(m, standardCategory) == find(taxCategoryMap(m), standardCategory)

\* ------------------------------------------------------------- mapper factory
(***************************************************************************)
(* MapperFactory.mappers is a Map from upper-cased standard to mapper; the *)
(* variable mappers holds it as a function whose domain is the key set     *)
(* (the order of the keys, which only getAvailableStandards shows, is left *)
(* out).                                                                    *)
(***************************************************************************)
Code(value) == [kind |-> "code", value |-> value]
Mapper(class) == [kind |-> "mapper", class |-> class]

NotAFunction == "TypeError: standard.toUpperCase is not a function"

\* String.prototype.toUpperCase on the standards the calls below pass
toUpperCase(standard) ==
    CASE standard = "us" -> "US"
      [] standard = "Peppol" -> "PEPPOL"
      [] standard = "custom" -> "CUSTOM"
      [] OTHER -> standard

getMapper(registry, standard) ==
    IF standard = InheritedFunction THEN Thrown(NotAFunction)
    ELSE IF toUpperCase(standard) \in DOMAIN registry
         THEN Mapper(registry[toUpperCase(standard)])
         ELSE Mapper("EN16931Mapper")

\* a registration that keeps the key as written
registerVerbatim(registry, standard, mapper) ==
    (standard :> mapper) @@ registry

registerMapper(registry, standard, mapper) ==
    (toUpperCase(standard) :> mapper) @@ registry

EUCountries ==
    << "AT", "BE", "BG", "HR", "CY", "CZ", "DK", "EE", "FI", "FR", "DE", "GR", "HU", "IE",
       "IT", "LV", "LT", "LU", "MT", "NL", "PL", "PT", "RO", "SK", "SI", "ES", "SE" >>

countryMappers ==
    [i \in 1..Len(EUCountries) |-> <<EUCountries[i], "EN16931">>]
        \o << <<"US", "US">>, <<"CA", "US">>, <<"MX", "US">>, <<"GB", "EN16931">>,
              <<"CH", "EN16931">>, <<"NO", "EN16931">>, <<"DEFAULT", "EN16931">> >>

getMapperByCountry(registry, countryCode) ==
    getMapper(registry,
              OrElse(PropertyGet(countryMappers, countryCode),
                     OrElse(PropertyGet(countryMappers, "DEFAULT"), "EN16931")))

getAvailableStandards(registry) == [kind |-> "standards", keys |-> DOMAIN registry]

\* ------------------------------------------------------------- mapper inputs
Keys(table) == {table[i][1] : i \in 1..Len(table)}
Codes(table) == {table[i][2] : i \in 1..Len(table)}

InvoiceType ==
    {"STANDARD", "CREDIT_NOTE", "DEBIT_NOTE", "CORRECTIVE", "CORRECTED", "SELF_BILLING",
     "SELF_BILLED", "PREPAYMENT", "FINAL", "PROFORMA", "RECURRING"}

\* what a caller passes to map*: every key of every table, every InvoiceType,
\* a string no table holds, and the names Object.prototype defines
DomainInputs ==
    InvoiceType \cup {"UNKNOWN"} \cup ObjectPrototype
        \cup UNION {Keys(taxCategoryMap(m)) \cup Keys(addressSchemeMap(m))
                        \cup Keys(outputFormatMap(m)) : m \in MapperClasses}

\* what a caller passes to reverseMap*: every code of the two tables a reverse
\* lookup reads, and a code neither holds
StandardInputs ==
    {"999"} \cup UNION {Codes(invoiceTypeMap(m)) \cup Codes(taxCategoryMap(m)) :
                            m \in MapperClasses}

StandardNames == {"EN16931", "us", "Peppol", "ANSI_X12", "custom", "CUSTOM", "UNKNOWN"}
CountryCodes == {"DE", "FR", "US", "CA", "MX", "GB", "ZZ", "us", "DEFAULT"} \cup ObjectPrototype

\* -------------------------------------------------------------- mapper calls
MapperCall(m, input) == [kind |-> "mapper", mapper |-> m, input |-> input]
FactoryCall(standard, class) == [kind |-> "factory", standard |-> standard, mapper |-> class]

MapInvoiceType ==
    \E m \in MapperClasses, domainType \in DomainInputs :
        Outcome("mapInvoiceType", MapperCall(m, domainType),
                Code(mapInvoiceType(m, domainType)))

MapTaxCategory ==
    \E m \in MapperClasses, domainCategory \in DomainInputs :
        Outcome("mapTaxCategory", MapperCall(m, domainCategory),
                Code(mapTaxCategory(m, domainCategory)))

MapAddressScheme ==
    \E m \in MapperClasses, domainScheme \in DomainInputs :
        Outcome("mapAddressScheme", MapperCall(m, domainScheme),
                Code(mapAddressScheme(m, domainScheme)))

MapOutputFormat ==
    \E m \in MapperClasses, domainFormat \in DomainInputs :
        Outcome("mapOutputFormat", MapperCall(m, domainFormat),
                Code(mapOutputFormat(m, domainFormat)))

ReverseMapInvoiceType ==
    \E m \in MapperClasses, standardType \in StandardInputs :
        Outcome("reverseMapInvoiceType", MapperCall(m, standardType),
                Code(reverseMapInvoiceType(m, standardType)))

ReverseMapTaxCategory ==
    \E m \in MapperClasses, standardCategory \in StandardInputs :
        Outcome("reverseMapTaxCategory", MapperCall(m, standardCategory),
                Code(reverseMapTaxCategory(m, standardCategory)))

\* m.reverseMapInvoiceType(m.mapInvoiceType(v))
RoundTripInvoiceType ==
    \E m \in MapperClasses, v \in DomainInputs :
        Outcome("mapInvoiceType.reverseMapInvoiceType", MapperCall(m, v),
                Code(reverseMapInvoiceType(m, mapInvoiceType(m, v))))

GetMapper ==
    \E standard \in StandardNames :
        Outcome("getMapper", FactoryCall(standard, Undefined), getMapper(mappers, standard))

GetMapperByCountry ==
    \E countryCode \in CountryCodes :
        Outcome("getMapperByCountry", FactoryCall(countryCode, Undefined),
                getMapperByCountry(mappers, countryCode))

RegisterMapper ==
    \E standard \in {"us", "custom"}, m \in MapperClasses :
        /\ mappers' = registerMapper(mappers, standard, m)
        /\ lastOp' = "registerMapper"
        /\ args' = FactoryCall(standard, m)
        /\ lastError' = NoError
        /\ returned' = Void
        /\ UNCHANGED <<aggregate, party, snapshot>>

GetAvailableStandards ==
    Outcome("getAvailableStandards", FactoryCall(Undefined, Undefined),
            getAvailableStandards(mappers))

NextMappers ==
    \/ MapInvoiceType
    \/ MapTaxCategory
    \/ MapAddressScheme
    \/ MapOutputFormat
    \/ ReverseMapInvoiceType
    \/ ReverseMapTaxCategory
    \/ RoundTripInvoiceType
    \/ GetMapper
    \/ GetMapperByCountry
    \/ RegisterMapper
    \/ GetAvailableStandards

SpecMappers == InitValues /\ [][NextMappers]_vars

\* ----------------------------------------------------------------------- party
(***************************************************************************)
(* The Party aggregate: party.identifiers is _identifiers, in array order, *)
(* and party.domainEvents is _domainEvents.  A PartyIdentifier is frozen,  *)
(* so an identifier in the list never changes.                             *)
(***************************************************************************)
MaxPartyEvents == 2

PartyIdentifier(id, scheme, identifier) ==
    [id |-> id, scheme |-> scheme, identifier |-> identifier]

\* three pairs that differ in scheme or in value, a second object carrying the
\* first pair, and an object literal without a scheme
IdentifierInputs ==
    {PartyIdentifier("id-1", "VAT", "DE123456789"), PartyIdentifier("id-2", "TAX", "DE123456789"),
     PartyIdentifier("id-3", "VAT", "FR12345678901"), PartyIdentifier("id-4", "VAT", "DE123456789"),
     PartyIdentifier("id-5", "", "DE123456789")}

validateIdentifier(identifier) ==
    IF identifier.scheme = "" THEN Thrown("Identifier scheme is required")
    ELSE IF identifier.identifier = "" THEN Thrown("Identifier value is required")
    ELSE Void

\* a duplicate check that finds nothing
existsNever(identifiers, scheme, identifier) == FALSE

\* this._identifiers.some(id => id.scheme === scheme && id.identifier === identifier)
exists(identifiers, scheme, identifier) ==
    \E i \in 1..Len(identifiers) :
        identifiers[i].scheme = scheme /\ identifiers[i].identifier = identifier

PartyEvent(eventType, data) ==
    [aggregateType |-> "Party", eventType |-> eventType, data |-> data]

\* The party after the call, or what the call throws.
addIdentifier(p, identifier) ==
    IF IsThrown(validateIdentifier(identifier)) THEN validateIdentifier(identifier)
    ELSE IF exists(p.identifiers, identifier.scheme, identifier.identifier)
    THEN Thrown("Identifier ${identifier.scheme}:${identifier.identifier} already exists")
    ELSE [p EXCEPT !.identifiers = Append(@, identifier),
                   !.domainEvents = addDomainEvent(@, PartyEvent("IDENTIFIER_ADDED",
                                                       [identifier |-> identifier]))]

identifierIndex(identifiers, scheme, identifier) ==
    IF \E i \in 1..Len(identifiers) :
           identifiers[i].scheme = scheme /\ identifiers[i].identifier = identifier
    THEN CHOOSE i \in 1..Len(identifiers) :
            /\ identifiers[i].scheme = scheme /\ identifiers[i].identifier = identifier
            /\ \A j \in 1..(i - 1) :
                   ~(identifiers[j].scheme = scheme /\ identifiers[j].identifier = identifier)
    ELSE -1

removeIdentifier(p, scheme, identifier) ==
    IF identifierIndex(p.identifiers, scheme, identifier) = -1
    THEN Thrown("Identifier ${scheme}:${identifier} not found")
    ELSE [p EXCEPT !.identifiers = splice(@, identifierIndex(p.identifiers, scheme, identifier)),
                   !.domainEvents = addDomainEvent(@, PartyEvent("IDENTIFIER_REMOVED",
                                       [scheme |-> scheme, identifier |-> identifier]))]

\* A call on the party: what it leaves behind, or the error and nothing else.
PartyOutcome(op, arguments, result) ==
    /\ lastOp' = op
    /\ args' = arguments
    /\ lastError' = IF IsThrown(result) THEN result.thrown ELSE NoError
    /\ party' = IF IsThrown(result) THEN party ELSE result
    /\ returned' = Void
    /\ IF IsThrown(result) THEN TRUE ELSE Len(result.domainEvents) <= MaxPartyEvents
    /\ UNCHANGED <<aggregate, mappers, snapshot>>

AddIdentifier ==
    \E identifier \in IdentifierInputs :
        PartyOutcome("addIdentifier", [kind |-> "party", identifier |-> identifier],
                     addIdentifier(party, identifier))

RemoveIdentifier ==
    \E identifier \in IdentifierInputs :
        PartyOutcome("removeIdentifier",
                     [kind |-> "party", scheme |-> identifier.scheme,
                      identifier |-> identifier.identifier],
                     removeIdentifier(party, identifier.scheme, identifier.identifier))

PartyClearDomainEvents ==
    PartyOutcome("clearDomainEvents", [kind |-> "party"], [party EXCEPT !.domainEvents = <<>>])

NextParty ==
    \/ AddIdentifier
    \/ RemoveIdentifier
    \/ PartyClearDomainEvents

SpecParty == InitValues /\ [][NextParty]_vars

\* ----------------------------------------------------- party: bank accounts
(***************************************************************************)
(* party.bankAccounts is _bankAccounts in array order.  A BankAccount is   *)
(* frozen; of its fields the party reads accountNumber and bankName, which *)
(* are optional and undefined when left out.                               *)
(***************************************************************************)
BankAccount(id, accountNumber, bankName) ==
    [id |-> id, accountNumber |-> accountNumber, bankName |-> bankName]

\* two accounts with one number, a third with another number, an account
\* given by IBAN only and an account without a bank name
BankAccountInputs ==
    {BankAccount("acc-1", "0001", "First Bank"), BankAccount("acc-2", "0001", "Second Bank"),
     BankAccount("acc-3", "0002", "First Bank"), BankAccount("acc-4", Undefined, "First Bank"),
     BankAccount("acc-5", "0003", Undefined)}

\* !value for an optional string
Not(value) == value = Undefined \/ value = ""

validateBankAccount(account) ==
    IF Not(account.accountNumber) THEN Thrown("Bank account number is required")
    ELSE IF Not(account.bankName) THEN Thrown("Bank name is required")
    ELSE Void

\* a duplicate check that finds nothing
bankAccountExistsNever(bankAccounts, accountNumber) == FALSE

\* this._bankAccounts.some(ba => ba.accountNumber === account.accountNumber)
bankAccountExists(bankAccounts, accountNumber) ==
    \E i \in 1..Len(bankAccounts) : bankAccounts[i].accountNumber = accountNumber

addBankAccount(p, account) ==
    IF IsThrown(validateBankAccount(account)) THEN validateBankAccount(account)
    ELSE IF bankAccountExists(p.bankAccounts, account.accountNumber)
    THEN Thrown("Bank account ${account.accountNumber} already exists")
    ELSE [p EXCEPT !.bankAccounts = Append(@, account),
                   !.domainEvents = addDomainEvent(@, PartyEvent("BANK_ACCOUNT_ADDED",
                                                       [account |-> account]))]

bankAccountIndex(bankAccounts, accountNumber) ==
    IF \E i \in 1..Len(bankAccounts) : bankAccounts[i].accountNumber = accountNumber
    THEN CHOOSE i \in 1..Len(bankAccounts) :
            /\ bankAccounts[i].accountNumber = accountNumber
            /\ \A j \in 1..(i - 1) : bankAccounts[j].accountNumber # accountNumber
    ELSE -1

removeBankAccount(p, accountNumber) ==
    IF bankAccountIndex(p.bankAccounts, accountNumber) = -1
    THEN Thrown("Bank account ${accountNumber} not found")
    ELSE [p EXCEPT !.bankAccounts = splice(@, bankAccountIndex(p.bankAccounts, accountNumber)),
                   !.domainEvents = addDomainEvent(@, PartyEvent("BANK_ACCOUNT_REMOVED",
                       [accountNumber |-> accountNumber,
                        account |-> p.bankAccounts[bankAccountIndex(p.bankAccounts,
                                                                    accountNumber)]]))]

AddBankAccount ==
    \E account \in BankAccountInputs :
        PartyOutcome("addBankAccount", [kind |-> "party", account |-> account],
                     addBankAccount(party, account))

RemoveBankAccount ==
    \E account \in BankAccountInputs :
        PartyOutcome("removeBankAccount",
                     [kind |-> "party", accountNumber |-> account.accountNumber],
                     removeBankAccount(party, account.accountNumber))

NextBankAccounts ==
    \/ AddBankAccount
    \/ RemoveBankAccount
    \/ PartyClearDomainEvents

SpecBankAccounts == InitValues /\ [][NextBankAccounts]_vars

\* --------------------------------------------- party: addresses and contacts
(***************************************************************************)
(* party.addresses is _addresses as an array of references into            *)
(* party.heap; party.contactPersons is _contactPersons, a ContactPerson    *)
(* being frozen and read by value.  An index is the 0-based index of the   *)
(* source.                                                                 *)
(***************************************************************************)
MaxPartyItems == 1

ContactPerson(id, name, email, telephone) ==
    [id |-> id, name |-> name, email |-> email, telephone |-> telephone]

ContactPersonInputs ==
    {ContactPerson("c-1", "Ada", "ada@example.com", "+49 30 1234567"),
     ContactPerson("c-2", "Bob", Undefined, "+33 1 2345678"),
     ContactPerson("c-3", "Eve", Undefined, Undefined),
     ContactPerson("c-4", "", "nn@example.com", Undefined)}

validateAddress(address) ==
    IF Not(address.countryCode) THEN Thrown("Address country code is required")
    ELSE IF Not(address.cityName) /\ Not(address.postalCode)
    THEN Thrown("Address must have either city name or postal code")
    ELSE Void

addAddress(p, address) ==
    IF IsThrown(validateAddress(p.heap[address])) THEN validateAddress(p.heap[address])
    ELSE [p EXCEPT !.addresses = Append(@, address),
                   !.domainEvents = addDomainEvent(@, PartyEvent("ADDRESS_ADDED",
                                                       [address |-> address]))]

\* an update that writes the fields of the object the slot refers to
updateAddressInPlace(p, index, address) ==
    IF index < 0 \/ index >= Len(p.addresses) THEN Thrown("Invalid address index")
    ELSE IF IsThrown(validateAddress(p.heap[address])) THEN validateAddress(p.heap[address])
    ELSE [p EXCEPT !.heap[p.addresses[index + 1]] = p.heap[address],
                   !.domainEvents = addDomainEvent(@, PartyEvent("ADDRESS_UPDATED",
                                       [index |-> index, address |-> address]))]

updateAddress(p, index, address) ==
    IF index < 0 \/ index >= Len(p.addresses) THEN Thrown("Invalid address index")
    ELSE IF IsThrown(validateAddress(p.heap[address])) THEN validateAddress(p.heap[address])
    ELSE [p EXCEPT !.addresses[index + 1] = address,
                   !.domainEvents = addDomainEvent(@, PartyEvent("ADDRESS_UPDATED",
                                       [index |-> index, address |-> address]))]

\* a removal that tells nobody
removeAddressSilently(p, index) ==
    IF index < 0 \/ index >= Len(p.addresses) THEN Thrown("Invalid address index")
    ELSE [p EXCEPT !.addresses = splice(@, index + 1)]

removeAddress(p, index) ==
    IF index < 0 \/ index >= Len(p.addresses) THEN Thrown("Invalid address index")
    ELSE [p EXCEPT !.addresses = splice(@, index + 1),
                   !.domainEvents = addDomainEvent(@, PartyEvent("ADDRESS_REMOVED",
                                       [index |-> index, address |-> p.addresses[index + 1]]))]

validateContactPerson(contact) ==
    IF Not(contact.name) THEN Thrown("Contact person name is required")
    ELSE IF Not(contact.email) /\ Not(contact.telephone)
    THEN Thrown("Contact person must have either email or telephone")
    ELSE Void

addContactPerson(p, contact) ==
    IF IsThrown(validateContactPerson(contact)) THEN validateContactPerson(contact)
    ELSE [p EXCEPT !.contactPersons = Append(@, contact),
                   !.domainEvents = addDomainEvent(@, PartyEvent("CONTACT_PERSON_ADDED",
                                                       [contact |-> contact]))]

contactIndex(contactPersons, contactId) ==
    IF \E i \in 1..Len(contactPersons) : contactPersons[i].id = contactId
    THEN CHOOSE i \in 1..Len(contactPersons) :
            /\ contactPersons[i].id = contactId
            /\ \A j \in 1..(i - 1) : contactPersons[j].id # contactId
    ELSE -1

removeContactPerson(p, contactId) ==
    IF contactIndex(p.contactPersons, contactId) = -1
    THEN Thrown("Contact person with ID ${contactId} not found")
    ELSE [p EXCEPT !.contactPersons = splice(@, contactIndex(p.contactPersons, contactId)),
                   !.domainEvents = addDomainEvent(@, PartyEvent("CONTACT_PERSON_REMOVED",
                       [contactId |-> contactId,
                        contact |-> p.contactPersons[contactIndex(p.contactPersons,
                                                                  contactId)]]))]

AddAddress ==
    \E address \in DOMAIN AddressHeap :
        PartyOutcome("addAddress", [kind |-> "party", address |-> address],
                     addAddress(party, address))

UpdateAddress ==
    \E index \in -1..MaxPartyItems, address \in DOMAIN AddressHeap :
        PartyOutcome("updateAddress", [kind |-> "party", index |-> index, address |-> address],
                     updateAddress(party, index, address))

RemoveAddress ==
    \E index \in -1..MaxPartyItems :
        PartyOutcome("removeAddress", [kind |-> "party", index |-> index],
                     removeAddress(party, index))

AddContactPerson ==
    \E contact \in ContactPersonInputs :
        PartyOutcome("addContactPerson", [kind |-> "party", contact |-> contact],
                     addContactPerson(party, contact))

RemoveContactPerson ==
    \E contact \in ContactPersonInputs :
        PartyOutcome("removeContactPerson", [kind |-> "party", contactId |-> contact.id],
                     removeContactPerson(party, contact.id))

\* The parties the outbox is followed on: at most MaxPartyItems addresses and
\* contacts, and of the identifiers and bank accounts the first input only.
SmallParty(p) ==
    /\ Len(p.addresses) <= MaxPartyItems
    /\ Len(p.contactPersons) <= MaxPartyItems
    /\ \A i \in 1..Len(p.identifiers) : p.identifiers[i].id = "id-1"
    /\ \A i \in 1..Len(p.bankAccounts) : p.bankAccounts[i].id = "acc-1"

NextOutbox ==
    \/ AddIdentifier /\ SmallParty(party')
    \/ RemoveIdentifier /\ SmallParty(party')
    \/ AddAddress /\ SmallParty(party')
    \/ UpdateAddress /\ SmallParty(party')
    \/ RemoveAddress /\ SmallParty(party')
    \/ AddContactPerson /\ SmallParty(party')
    \/ RemoveContactPerson /\ SmallParty(party')
    \/ AddBankAccount /\ SmallParty(party')
    \/ RemoveBankAccount /\ SmallParty(party')
    \/ PartyClearDomainEvents /\ SmallParty(party')

SpecOutbox == InitValues /\ [][NextOutbox]_vars

\* ------------------------------------------------------------ party: snapshot
(***************************************************************************)
(* snapshot is the object the last createSnapshot returned, which the      *)
(* caller keeps: strings copied from the party, and in address the         *)
(* reference this._addresses[0] held at the time.                          *)
(***************************************************************************)
createSnapshot(p) ==
    [id |-> p.id,
     legalName |-> p.legalName,
     address |-> IF Len(p.addresses) > 0 THEN p.addresses[1] ELSE Undefined,
     contactEmail |-> IF Len(p.contactPersons) > 0 THEN p.contactPersons[1].email
                      ELSE Undefined,
     contactPhone |-> IF Len(p.contactPersons) > 0 THEN p.contactPersons[1].telephone
                      ELSE Undefined]

CreateSnapshot ==
    /\ lastOp' = "createSnapshot"
    /\ args' = [kind |-> "party"]
    /\ lastError' = NoError
    /\ returned' = createSnapshot(party)
    /\ snapshot' = createSnapshot(party)
    /\ UNCHANGED <<aggregate, party, mappers>>

NextSnapshot ==
    \/ AddAddress /\ SmallParty(party')
    \/ UpdateAddress /\ SmallParty(party')
    \/ RemoveAddress /\ SmallParty(party')
    \/ AddContactPerson /\ SmallParty(party')
    \/ RemoveContactPerson /\ SmallParty(party')
    \/ PartyClearDomainEvents
    \/ CreateSnapshot

SpecSnapshot == InitValues /\ [][NextSnapshot]_vars

\* ------------------------------------------------- scalar value objects
(***************************************************************************)
(* Money, Quantity and Percentage with the scale of the currency and of    *)
(* the type in view.  A value is a whole number of millionths (1.5 is      *)
(* 1500000), the finest scale any of the three types admits; the values    *)
(* of this part have far fewer than DecimalPrecision digits, so add, sub,  *)
(* mul and div of decimal.js are exact on them, and a quotient is rounded  *)
(* once, by toDecimalPlaces.  A currency is its code and its number of     *)
(* decimal places.  A factor or divisor is an exact fraction.              *)
(***************************************************************************)
\* an optional object that was not given
Absent == [kind |-> "undefined"]

QuantityMaxDecimalPlaces == 6
PercentageMaxDecimalPlaces == 4
CurrencyMaxDecimalPlaces == 4

RECURSIVE Pow10(_)
Pow10(k) == IF k <= 0 THEN 1 ELSE 10 * Pow10(k - 1)

Micro == Pow10(QuantityMaxDecimalPlaces)

Abs(v) == IF v < 0 THEN -v ELSE v

\* Decimal.decimalPlaces: the number of digits after the decimal point
decimalPlaces(v) ==
    CHOOSE k \in 0..QuantityMaxDecimalPlaces :
        /\ v % Pow10(QuantityMaxDecimalPlaces - k) = 0
        /\ \A j \in 0..(k - 1) : v % Pow10(QuantityMaxDecimalPlaces - j) # 0

RECURSIVE Gcd(_, _)
Gcd(a, b) == IF b = 0 THEN a ELSE Gcd(b, a % b)

\* new Decimal(n / d) for a number literal, in lowest terms
Factor(n, d) == [num |-> n \div Gcd(n, d), den |-> d \div Gcd(n, d)]

\* Decimal.mul(f).toDecimalPlaces(k), rounding half up (away from zero)
mulToDecimalPlaces(v, f, k) ==
    LET u == Pow10(QuantityMaxDecimalPlaces - k)
        X == Abs(v) * f.num
        D == f.den * u
        q == X \div D
        r == X % D
        n == IF r >= D - r THEN q + 1 ELSE q
    IN (IF v < 0 THEN -1 ELSE 1) * n * u

\* Decimal.div(f).toDecimalPlaces(k) for f other than zero
divToDecimalPlaces(v, f, k) == mulToDecimalPlaces(v, [num |-> f.den, den |-> f.num], k)

\* new Currency(code, name, decimalPlaces) with a well-formed code
NewCurrency(code, places) ==
    IF places < 0 \/ places > CurrencyMaxDecimalPlaces
    THEN Thrown("Invalid decimal places")
    ELSE [code |-> code, decimalPlaces |-> places]

\* Money.validate: the message of the error it throws, or NoError
MoneyValidate(amount, cur) ==
    IF cur = Absent THEN "Currency is required"
    ELSE IF decimalPlaces(amount) > cur.decimalPlaces
    THEN "Amount has too many decimal places"
    ELSE NoError

\* new Money(amount, currency)
NewMoney(amount, cur) ==
    IF MoneyValidate(amount, cur) # NoError
    THEN Thrown(MoneyValidate(amount, cur))
    ELSE Money(amount, cur)

\* Money.assertSameCurrency through Currency.equals, which compares the codes
sameCurrency(a, b) ==
    IF a.currency.code # b.currency.code
    THEN "Cannot perform operation on different currencies"
    ELSE NoError

addMoney(a, b) ==
    IF sameCurrency(a, b) # NoError THEN Thrown(sameCurrency(a, b))
    ELSE NewMoney(a.amount + b.amount, a.currency)

subtractMoney(a, b) ==
    IF sameCurrency(a, b) # NoError THEN Thrown(sameCurrency(a, b))
    ELSE NewMoney(a.amount - b.amount, a.currency)

multiplyMoney(a, factor) ==
    NewMoney(mulToDecimalPlaces(a.amount, factor, a.currency.decimalPlaces), a.currency)

divideMoney(a, divisor) ==
    IF divisor.num = 0 THEN Thrown("Cannot divide by zero")
    ELSE NewMoney(divToDecimalPlaces(a.amount, divisor, a.currency.decimalPlaces), a.currency)

\* Money.greaterThan
greaterThanMoney(a, b) ==
    IF sameCurrency(a, b) # NoError THEN Thrown(sameCurrency(a, b))
    ELSE a.amount > b.amount

\* Quantity.validate with a unit code free of blanks
QuantityValidateAny(value, unitCode) == NoError

QuantityValidate(value, unitCode) ==
    IF value < 0 THEN "Quantity cannot be negative"
    ELSE IF Not(unitCode) THEN "Unit code is required"
    ELSE IF decimalPlaces(value) > QuantityMaxDecimalPlaces
    THEN "Quantity has too many decimal places"
    ELSE NoError

\* new Quantity(value, unitCode)
NewQuantity(value, unitCode) ==
    IF QuantityValidate(value, unitCode) # NoError
    THEN Thrown(QuantityValidate(value, unitCode))
    ELSE [value |-> value, unitCode |-> unitCode]

assertSameUnit(a, b) ==
    IF a.unitCode # b.unitCode
    THEN "Cannot perform operation on different units"
    ELSE NoError

addQuantity(a, b) ==
    IF assertSameUnit(a, b) # NoError THEN Thrown(assertSameUnit(a, b))
    ELSE NewQuantity(a.value + b.value, a.unitCode)

subtractQuantity(a, b) ==
    IF assertSameUnit(a, b) # NoError THEN Thrown(assertSameUnit(a, b))
    ELSE NewQuantity(a.value - b.value, a.unitCode)

divideQuantity(a, divisor) ==
    IF divisor.num = 0 THEN Thrown("Cannot divide by zero")
    ELSE NewQuantity(divToDecimalPlaces(a.value, divisor, QuantityMaxDecimalPlaces), a.unitCode)

\* Percentage.validate
PercentageValidate(value) ==
    IF value < 0 THEN "Percentage cannot be negative"
    ELSE IF value > 100 * Micro THEN "Percentage cannot be greater than 100"
    ELSE IF decimalPlaces(value) > PercentageMaxDecimalPlaces
    THEN "Percentage has too many decimal places"
    ELSE NoError

\* new Percentage(value)
NewPercentage(value) ==
    IF PercentageValidate(value) # NoError
    THEN Thrown(PercentageValidate(value))
    ELSE [value |-> value]

addPercentage(a, b) == NewPercentage(a.value + b.value)

subtractPercentage(a, b) == NewPercentage(a.value - b.value)

dividePercentage(a, divisor) ==
    IF divisor.num = 0 THEN Thrown("Cannot divide by zero")
    ELSE NewPercentage(divToDecimalPlaces(a.value, divisor, PercentageMaxDecimalPlaces))

\* Percentage.asDecimal().div(100)
rateFactor(percentage) == Factor(percentage.value, 100 * Micro)

\* TaxBreakdown.calculateTaxAmount
calculateTax(b) ==
    IF b.taxRate.value = 0
    THEN NewMoney(0, b.taxAmount.currency)
    ELSE multiplyMoney(b.taxableAmount, rateFactor(b.taxRate))

\* new Money('0.01', currency)
tolerance(cur) == NewMoney(Micro \div 100, cur)

\* TaxBreakdown.validate at the scale of its currency
validateTaxBreakdown(b) ==
    LET calculatedTax == calculateTax(b)
        difference == subtractMoney(b.taxAmount, calculatedTax)
        limit == tolerance(b.taxAmount.currency)
    IN IF /\ requiresExemptionReason(b.taxCategory)
          /\ b.exemptionReason = Undefined
          /\ b.exemptionReasonCode = Undefined
       THEN "Tax category requires exemption reason or code"
       ELSE IF requiresTaxRate(b.taxCategory) /\ b.taxRate.value = 0
       THEN "Tax category requires tax rate greater than zero"
       ELSE IF ~requiresTaxRate(b.taxCategory) /\ b.taxRate.value # 0
       THEN "Tax category must have zero tax rate"
       ELSE IF b.taxableAmount.currency.code # b.taxAmount.currency.code
       THEN "Taxable amount and tax amount must be in the same currency"
       ELSE IF IsThrown(calculatedTax) THEN calculatedTax.thrown
       ELSE IF IsThrown(limit) THEN limit.thrown
       ELSE IF IsThrown(difference) THEN difference.thrown
       ELSE IF Abs(difference.amount) > limit.amount
       THEN "Tax amount does not match calculated amount"
       ELSE NoError

\* TaxBreakdown.calculate
calculateTaxBreakdown(taxableAmount, taxCategory, taxRate, exemptionReason, exemptionReasonCode) ==
    LET taxAmount == IF taxRate.value = 0 \/ ~requiresTaxRate(taxCategory)
                     THEN NewMoney(0, taxableAmount.currency)
                     ELSE multiplyMoney(taxableAmount, rateFactor(taxRate))
        b == [taxableAmount |-> taxableAmount, taxAmount |-> taxAmount,
              taxCategory |-> taxCategory, taxRate |-> taxRate,
              exemptionReason |-> exemptionReason,
              exemptionReasonCode |-> exemptionReasonCode]
    IN IF IsThrown(taxAmount) THEN taxAmount
       ELSE IF validateTaxBreakdown(b) # NoError THEN Thrown(validateTaxBreakdown(b))
       ELSE b

\* AllowanceCharge.calculateAmount
calculateAmount(c) ==
    IF c.percentage = Absent \/ c.baseAmount = Absent
    THEN c.amount
    ELSE multiplyMoney(c.baseAmount, rateFactor(c.percentage))

\* AllowanceCharge.validate
validateAllowanceCharge(c) ==
    LET calculated == calculateAmount(c)
        limit == tolerance(c.amount.currency)
        difference == subtractMoney(c.amount, calculated)
    IN IF c.amount.amount < 0
       THEN "Allowance/charge amount must be positive or zero"
       ELSE IF c.percentage # Absent /\ c.baseAmount = Absent
       THEN "Base amount is required when percentage is specified"
       ELSE IF c.percentage # Absent /\ c.baseAmount # Absent /\ IsThrown(calculated)
       THEN calculated.thrown
       ELSE IF c.percentage # Absent /\ c.baseAmount # Absent /\ IsThrown(limit)
       THEN limit.thrown
       ELSE IF c.percentage # Absent /\ c.baseAmount # Absent /\ IsThrown(difference)
       THEN difference.thrown
       ELSE IF /\ c.percentage # Absent /\ c.baseAmount # Absent
               /\ Abs(difference.amount) > limit.amount
       THEN "Allowance/charge amount does not match calculated amount"
       ELSE IF /\ c.taxCategory # Absent
               /\ requiresTaxRate(c.taxCategory)
               /\ c.taxRate = Absent
       THEN "Tax rate is required for tax category"
       ELSE NoError

\* new AllowanceCharge(isCharge, amount, baseAmount, percentage, ...)
NewAllowanceCharge(c) ==
    IF validateAllowanceCharge(c) # NoError THEN Thrown(validateAllowanceCharge(c)) ELSE c

\* ------------------------------------- scalar value objects: the inputs
\* Currencies a caller can have built: EUR at each scale Currency accepts
\* (Currency.EUR has two places), and USD.
ScaledCurrencies ==
    { [code |-> "EUR", decimalPlaces |-> k] : k \in 0..CurrencyMaxDecimalPlaces }
        \cup { [code |-> "USD", decimalPlaces |-> 2] }

\* -1.5, 0, 0.0001, 0.01, 1, 10.5, 100 where the currency admits them
ScaledMoneyInputs ==
    { m \in { Money(v, c) : v \in { -1500000, 0, 100, 10000, 1000000, 10500000, 100000000 },
                            c \in ScaledCurrencies } :
        MoneyValidate(m.amount, m.currency) = NoError }

\* 0, 0.000001, 1, 2.5 pieces and 1 kilogram
QuantityInputs ==
    { [value |-> v, unitCode |-> "C62"] : v \in {0, 1, 1000000, 2500000} }
        \cup { [value |-> 1000000, unitCode |-> "KGM"] }

\* 0%, 0.0001%, 7.5%, 20%, 60%, 100%
PercentageInputs == { [value |-> v] : v \in {0, 100, 7500000, 20000000, 60000000, 100000000} }

\* 0%, 7.5%, 20% as tax rates
RateInputs == { [value |-> v] : v \in {0, 7500000, 20000000} }

\* 0, 0.5, 1, 3
Divisors == { Factor(0, 1), Factor(1, 2), Factor(1, 1), Factor(3, 1) }

AllowanceChargeInputs ==
    { [isCharge |-> FALSE, amount |-> amount, baseAmount |-> baseAmount,
       percentage |-> percentage, taxCategory |-> taxCategory, taxRate |-> taxRate] :
        amount \in ScaledMoneyInputs,
        baseAmount \in {Absent} \cup { m \in ScaledMoneyInputs : m.amount >= 0 },
        percentage \in {Absent, [value |-> 20000000], [value |-> 100000000]},
        taxCategory \in {Absent, TaxCategory("STANDARD", TRUE, FALSE)},
        taxRate \in {Absent, [value |-> 20000000]} }

\* ------------------------------------- scalar value objects: the calls
ConstructCurrency ==
    /\ NoCallYet
    /\ \E places \in -1..(CurrencyMaxDecimalPlaces + 1) :
          Outcome("new Currency", [code |-> "EUR", decimalPlaces |-> places],
                  NewCurrency("EUR", places))

AddMoney ==
    /\ NoCallYet
    /\ \E a \in ScaledMoneyInputs, b \in ScaledMoneyInputs :
          Outcome("Money.add", [a |-> a, b |-> b], addMoney(a, b))

SubtractMoney ==
    /\ NoCallYet
    /\ \E a \in ScaledMoneyInputs, b \in ScaledMoneyInputs :
          Outcome("Money.subtract", [a |-> a, b |-> b], subtractMoney(a, b))

MultiplyMoney ==
    /\ NoCallYet
    /\ \E a \in ScaledMoneyInputs, b \in Divisors :
          Outcome("Money.multiply", [a |-> a, b |-> b], multiplyMoney(a, b))

DivideMoney ==
    /\ NoCallYet
    /\ \E a \in ScaledMoneyInputs, b \in Divisors :
          Outcome("Money.divide", [a |-> a, b |-> b], divideMoney(a, b))

AddQuantity ==
    /\ NoCallYet
    /\ \E a \in QuantityInputs, b \in QuantityInputs :
          Outcome("Quantity.add", [a |-> a, b |-> b], addQuantity(a, b))

SubtractQuantity ==
    /\ NoCallYet
    /\ \E a \in QuantityInputs, b \in QuantityInputs :
          Outcome("Quantity.subtract", [a |-> a, b |-> b], subtractQuantity(a, b))

DivideQuantity ==
    /\ NoCallYet
    /\ \E a \in QuantityInputs, b \in Divisors :
          Outcome("Quantity.divide", [a |-> a, b |-> b], divideQuantity(a, b))

AddPercentage ==
    /\ NoCallYet
    /\ \E a \in PercentageInputs, b \in PercentageInputs :
          Outcome("Percentage.add", [a |-> a, b |-> b], addPercentage(a, b))

SubtractPercentage ==
    /\ NoCallYet
    /\ \E a \in PercentageInputs, b \in PercentageInputs :
          Outcome("Percentage.subtract", [a |-> a, b |-> b], subtractPercentage(a, b))

DividePercentage ==
    /\ NoCallYet
    /\ \E a \in PercentageInputs, b \in Divisors :
          Outcome("Percentage.divide", [a |-> a, b |-> b], dividePercentage(a, b))

CalculateTaxBreakdown ==
    /\ NoCallYet
    /\ \E taxableAmount \in ScaledMoneyInputs, taxCategory \in TaxCategories,
          taxRate \in RateInputs, reason \in {Undefined, "Intra-community supply"} :
          Outcome("TaxBreakdown.calculate",
                  [taxableAmount |-> taxableAmount, taxCategory |-> taxCategory,
                   taxRate |-> taxRate, exemptionReason |-> reason],
                  calculateTaxBreakdown(taxableAmount, taxCategory, taxRate, reason, Undefined))

ConstructAllowanceCharge ==
    /\ NoCallYet
    /\ \E c \in AllowanceChargeInputs : Outcome("new AllowanceCharge", c, NewAllowanceCharge(c))

NextScalars ==
    \/ ConstructCurrency
    \/ AddMoney
    \/ SubtractMoney
    \/ MultiplyMoney
    \/ DivideMoney
    \/ AddQuantity
    \/ SubtractQuantity
    \/ DivideQuantity
    \/ AddPercentage
    \/ SubtractPercentage
    \/ DividePercentage
    \/ CalculateTaxBreakdown
    \/ ConstructAllowanceCharge

\* One call on a scalar value object or on a value object built from them.
SpecScalars == InitValues /\ [][NextScalars]_vars

\* ------------------------------------------------------------------ claims
Last(s) == s[Len(s)]

LineItemCalls == {"addLineItem", "removeLineItem", "updateLineItem"}

LineItemErrors ==
    { "Line item name is required", "Line item quantity must be positive",
      "Line item unit price must be positive", "Line item tax category is required" }

\* C1: once documentStatus is FINALIZED, every addLineItem, removeLineItem and
\* updateLineItem call fails and leaves the line items, the totals, the outbox
\* and the history as they were; no later step of any kind changes the line
\* items (the list or the items' fields) of a finalized invoice.
FinalizedLineItemsFrozen ==
    [][documentStatus = "FINALIZED" =>
          /\ lineItems' = lineItems
          /\ heap' = heap
          /\ (lastOp' \in LineItemCalls =>
                /\ lastError' # NoError
                /\ totals' = totals
                /\ domainEvents' = domainEvents
                /\ history' = history)]_vars

\* A line-item call was refused on an invoice that finalize() had finalized.
FinalizedLineItemsFrozenWitness ==
    /\ documentStatus = "FINALIZED"
    /\ history # <<>>
    /\ Last(history).eventType = "INVOICE_FINALIZED"
    /\ lineItems # <<>>
    /\ lastOp \in LineItemCalls
    /\ lastError = "Cannot modify finalized invoice"

\* C2: finalize() fails when the invoice is already FINALIZED, has no line
\* items, or lacks a seller, a buyer or an issue date, and then leaves
\* documentStatus, finalizedAt, the outbox and the history unchanged; so it
\* succeeds only when none of these conditions holds.
FinalizeGuarded ==
    [][(/\ lastOp' = "finalize"
        /\ \/ documentStatus = "FINALIZED"
           \/ Len(lineItems) = 0
           \/ seller = Undefined
           \/ buyer = Undefined
           \/ issueDate = Undefined)
       => /\ lastError' # NoError
          /\ documentStatus' = documentStatus
          /\ finalizedAt' = finalizedAt
          /\ domainEvents' = domainEvents
          /\ history' = history]_vars

\* finalize() was refused on an invoice with line items and no seller.
FinalizeGuardedWitness ==
    /\ lastOp = "finalize"
    /\ lastError = "Seller information is required"
    /\ Len(lineItems) > 0
    /\ seller = Undefined
    /\ documentStatus = "DRAFT"
    /\ finalizedAt = Undefined

\* Half-up rounding of net x rate / 100 to minor units.
TaxOf(net, rate) == (net * rate + 50) \div 100

RECURSIVE SumLineNet(_, _)
SumLineNet(items, objects) ==
    IF items = <<>> THEN 0
    ELSE objects[Head(items)].quantity * objects[Head(items)].unitPrice
         + SumLineNet(Tail(items), objects)

RECURSIVE SumLineTax(_, _)
SumLineTax(items, objects) ==
    IF items = <<>> THEN 0
    ELSE TaxOf(objects[Head(items)].quantity * objects[Head(items)].unitPrice,
               objects[Head(items)].taxRate)
         + SumLineTax(Tail(items), objects)

\* C3: after every successful addLineItem, removeLineItem or updateLineItem
\* the totals are those of the current line items: lineNet the sum of
\* quantity x unit price, taxTotal the sum of line net x rate / 100,
\* taxExclusive = lineNet, taxInclusive = taxExclusive + taxTotal, and
\* payable = taxInclusive when prepaid and rounding are zero.
TotalsRecalculated ==
    (lastOp \in LineItemCalls /\ lastError = NoError) =>
        /\ totals.lineNetAmount = Money(SumLineNet(lineItems, heap), currency)
        /\ totals.taxTotalAmount = Money(SumLineTax(lineItems, heap), currency)
        /\ totals.taxExclusiveAmount = totals.lineNetAmount
        /\ totals.taxInclusiveAmount =
              MoneyAdd(totals.taxExclusiveAmount, totals.taxTotalAmount)
        /\ (isZero(totals.prepaidAmount) /\ isZero(totals.roundingAmount)
              => totals.payableAmount = totals.taxInclusiveAmount)

\* C4: in every state the line items carry the line numbers 1..n in list
\* order, without gaps or duplicates.
LineNumbersSequential ==
    \A i \in 1..Len(lineItems) : heap[lineItems[i]].lineNumber = i

\* C5: a successful finalize() sets documentStatus to FINALIZED, sets
\* finalizedAt, and appends one InvoiceFinalized event whose totalAmount is
\* the payable amount of the totals.
FinalizedEventCarriesPayable ==
    (lastOp = "finalize" /\ lastError = NoError) =>
        /\ documentStatus = "FINALIZED"
        /\ finalizedAt # Undefined
        /\ domainEvents # <<>>
        /\ Last(domainEvents).type = "InvoiceFinalized"
        /\ Last(domainEvents).totalAmount = totals.payableAmount

\* C6: send() and generateOutput() fail and change nothing unless
\* documentStatus is FINALIZED, and transmissionStatus = SENT implies
\* documentStatus = FINALIZED in every state.
SendRequiresFinalized ==
    /\ [](transmissionStatus = "SENT" => documentStatus = "FINALIZED")
    /\ [][(lastOp' \in {"send", "generateOutput"} /\ documentStatus # "FINALIZED")
          => (lastError' # NoError /\ UNCHANGED aggregate)]_vars

\* send() succeeded on a finalized invoice.
SendRequiresFinalizedWitness ==
    /\ lastOp = "send"
    /\ lastError = NoError
    /\ transmissionStatus = "SENT"
    /\ documentStatus = "FINALIZED"
    /\ Last(domainEvents).type = "InvoiceSent"

\* Sum of the payments recorded in the audit history.
RECURSIVE PaidSoFar(_)
PaidSoFar(h) ==
    IF h = <<>> THEN 0
    ELSE (IF Head(h).eventType = "PAYMENT_APPLIED"
          THEN Head(h).data.payment.amount.amount ELSE 0)
         + PaidSoFar(Tail(h))

\* C7: applyPayment recomputes the remaining balance as the payable amount
\* minus the payments applied so far; when that balance is not zero,
\* paymentStatus becomes PARTIAL and the InvoicePaymentApplied event carries
\* the balance.
PartialPaymentLeavesBalance ==
    (/\ lastOp = "applyPayment"
     /\ lastError = NoError
     /\ totals.payableAmount.amount - PaidSoFar(history) # 0)
    => /\ paymentStatus = "PARTIAL"
       /\ Last(domainEvents).type = "InvoicePaymentApplied"
       /\ Last(domainEvents).remainingAmount =
             Money(totals.payableAmount.amount - PaidSoFar(history), currency)

\* C8: applying a payment whose amount equals the payable amount sets
\* paymentStatus to PAID, and the InvoicePaymentApplied event carries a
\* remaining amount of zero in the invoice currency.
FullPaymentSettles ==
    (/\ lastOp = "applyPayment"
     /\ lastError = NoError
     /\ MoneyEquals(Last(history).data.payment.amount, totals.payableAmount))
    => /\ paymentStatus = "PAID"
       /\ Last(domainEvents).type = "InvoicePaymentApplied"
       /\ Last(domainEvents).paymentAmount = totals.payableAmount
       /\ Last(domainEvents).remainingAmount = Money(0, currency)

\* 240.00 EUR was paid on an invoice whose payable amount is 240.00 EUR.
FullPaymentSettlesWitness ==
    /\ lastOp = "applyPayment"
    /\ lastError = NoError
    /\ totals.payableAmount = Money(24000, "EUR")
    /\ Last(history).data.payment.amount = Money(24000, "EUR")
    /\ paymentStatus = "PAID"

\* C9: validate(profile) succeeds in every document status, appends the result
\* it returns to validationResults and one InvoiceValidated event to the
\* outbox, and leaves the statuses, the line items and the totals unchanged;
\* stored results, with or without errors, do not make a later addLineItem or
\* finalize() fail.
ValidateFrame ==
    /\ [][lastOp' = "validate" =>
            /\ lastError' = NoError
            /\ validationResults' = Append(validationResults, returned')
            /\ Len(domainEvents') = Len(domainEvents) + 1
            /\ SubSeq(domainEvents', 1, Len(domainEvents)) = domainEvents
            /\ Last(domainEvents').type = "InvoiceValidated"
            /\ UNCHANGED <<documentStatus, transmissionStatus, paymentStatus,
                           lineItems, heap, totals>>]_vars
    /\ [][(/\ lastOp' = "finalize"
           /\ documentStatus # "FINALIZED"
           /\ Len(lineItems) > 0
           /\ seller # Undefined /\ buyer # Undefined /\ issueDate # Undefined)
          => lastError' = NoError]_vars
    /\ [][(lastOp' = "addLineItem" /\ documentStatus # "FINALIZED")
          => lastError' \in LineItemErrors \cup {NoError}]_vars

\* validate() ran on an invoice that holds a result with errors, and the
\* finalize() that followed succeeded.
ValidateFrameWitness ==
    /\ Len(history) = 2
    /\ history[1].eventType = "INVOICE_VALIDATED"
    /\ history[2].eventType = "INVOICE_FINALIZED"
    /\ lastOp = "finalize"
    /\ lastError = NoError
    /\ \E i \in 1..Len(validationResults) : ~validationResults[i].isValid
    /\ Last(validationResults).isValid

\* What a rule requires of the invoice, by its expression.
RuleViolated(rule) ==
    rule.expression = "count(lineItems) >= 1" /\ Len(lineItems) = 0

MandatoryRules(profile) ==
    { i \in 1..Len(profile.rules) : profile.rules[i].severity = "ERROR" }

\* C10: validate with a profile holding one mandatory rule that the invoice
\* violates returns isValid = false and exactly one ERROR issue carrying the
\* code of that rule.
MandatoryRuleReported ==
    (/\ lastOp = "validate"
     /\ Cardinality(MandatoryRules(returned.profile)) = 1
     /\ \A i \in MandatoryRules(returned.profile) : RuleViolated(returned.profile.rules[i]))
    => /\ returned.isValid = FALSE
       /\ Len(returned.errors) = 1
       /\ \A i \in MandatoryRules(returned.profile) :
             /\ returned.errors[1].code = returned.profile.rules[i].code
             /\ returned.errors[1].severity = "ERROR"

\* C11: every ValidationResult that the constructor, ValidationResult.success
\* or ValidationResult.failure hands out has isValid = TRUE exactly when its
\* list of errors is empty.
IsValidIffNoErrors ==
    lastOp \in {"new ValidationResult", "ValidationResult.success",
                "ValidationResult.failure"}
        => (returned.isValid <=> returned.errors = <<>>)

\* C12: the pipeline runs the structural stage first and, when that stage
\* reports no error, returns a result holding the issues of every later stage.
\* No profile of the model declares a schema, so the structural stage has
\* nothing to report, and the rules of the profile are checked by a later
\* stage: the result of validate holds an issue for every rule of the profile
\* that the invoice violates.
LaterStagesReported ==
    lastOp = "validate"
        => \A i \in 1..Len(returned.profile.rules) :
              RuleViolated(returned.profile.rules[i])
                  => \E j \in 1..Len(returned.errors) :
                        returned.errors[j].code = returned.profile.rules[i].code

\* The three equations of the totals in exact arithmetic.
TotalsEquationsHold(t) ==
    /\ t.taxExclusiveAmount.amount =
          ExactPlus(ExactMinus(t.lineNetAmount.amount, t.allowanceTotalAmount.amount),
                    t.chargeTotalAmount.amount)
    /\ t.taxInclusiveAmount.amount =
          ExactPlus(t.taxExclusiveAmount.amount, t.taxTotalAmount.amount)
    /\ t.payableAmount.amount =
          ExactPlus(ExactMinus(t.taxInclusiveAmount.amount, t.prepaidAmount.amount),
                    t.roundingAmount.amount)

\* C13: an InvoiceTotals that the constructor or InvoiceTotals.calculate hands
\* out satisfies taxExclusive = lineNet - allowanceTotal + chargeTotal,
\* taxInclusive = taxExclusive + taxTotal and payable = taxInclusive - prepaid
\* + rounding exactly, with all nine amounts in one currency.
TotalsEquationsEnforced ==
    (lastOp \in {"new InvoiceTotals", "InvoiceTotals.calculate"} /\ lastError = NoError)
        => /\ TotalsEquationsHold(returned)
           /\ \A i \in 1..9 : returned[TotalsFields[i]].currency = returned.lineNetAmount.currency

\* C14: a TaxBreakdown that the constructor hands out has a tax amount within
\* 0.01 of taxableAmount x taxRate / 100, a rate that is zero exactly when its
\* category takes no rate, and an exemption reason or reason code when its
\* category requires one.  The deviation is counted in hundredths of a minor
\* unit, in exact arithmetic.
TaxBreakdownChecked ==
    (lastOp = "new TaxBreakdown" /\ lastError = NoError)
        => LET b == returned
               deviation == ExactMinus(ExactTimes(b.taxAmount.amount, 100),
                                       ExactTimes(b.taxableAmount.amount, b.taxRate))
           IN /\ ~LessDigits(Decimal(100).digits, deviation.digits)
              /\ requiresTaxRate(b.taxCategory) <=> b.taxRate # 0
              /\ requiresExemptionReason(b.taxCategory)
                    => b.exemptionReason # Undefined \/ b.exemptionReasonCode # Undefined

\* C15: for Money values a and b of one currency, a.add(b).subtract(b)
\* returns a Money that equals a exactly.
AddSubtractRestores ==
    (lastOp = "add.subtract" /\ args.a.currency = args.b.currency)
        => /\ lastError = NoError
           /\ MoneyEquals(returned, args.a)

\* The InvoiceType values whose round trip through mapper m does not come
\* back: the three the tables leave out, and for EN16931Mapper RECURRING,
\* which shares 380 with STANDARD.
NoRoundTrip(m) ==
    {"CORRECTIVE", "SELF_BILLING", "FINAL"}
        \cup (IF m = "EN16931Mapper" THEN {"RECURRING"} ELSE {})

\* C16 (as amended): for an InvoiceType v, m.reverseMapInvoiceType(
\* m.mapInvoiceType(v)) returns v exactly when v has an entry in m's
\* invoice-type table and no earlier entry of the table carries the same code;
\* the round trip fails for CORRECTIVE, SELF_BILLING and FINAL in both mappers
\* and for RECURRING in EN16931Mapper, and for nothing else.
InvoiceTypeRoundTrip ==
    (lastOp = "mapInvoiceType.reverseMapInvoiceType" /\ args.input \in InvoiceType)
        => /\ lastError = NoError
           /\ returned.value = args.input <=> args.input \notin NoRoundTrip(args.mapper)

\* C16 witness: the US mapper has taken RECURRING to REC and back.
RoundTripDone ==
    /\ lastOp = "mapInvoiceType.reverseMapInvoiceType"
    /\ args.mapper = "USMapper"
    /\ args.input = "RECURRING"
    /\ mapInvoiceType(args.mapper, args.input) = "REC"
    /\ returned.value = "RECURRING"

\* C16 (as stated): the round trip returns v for every v that has a code in
\* m's invoice-type table.
InvoiceTypeRoundTripAsStated ==
    (/\ lastOp = "mapInvoiceType.reverseMapInvoiceType"
     /\ HasOwn(invoiceTypeMap(args.mapper), args.input))
        => returned.value = args.input

MapsTo(table, input, fallback) ==
    IF HasOwn(table, input) THEN PropertyGet(table, input) ELSE fallback

\* C17: every map* call returns, without throwing, the code its table holds
\* for the input and the mapper's default code for an input the table does not
\* hold; every reverseMap* call of a code the table does not hold returns
\* STANDARD.
MappingTotal ==
    /\ lastOp \in {"mapInvoiceType", "mapTaxCategory", "mapAddressScheme", "mapOutputFormat",
                   "reverseMapInvoiceType", "reverseMapTaxCategory"}
            => lastError = NoError
    /\ lastOp = "mapInvoiceType"
            => returned.value = MapsTo(invoiceTypeMap(args.mapper), args.input,
                                       IF args.mapper = "EN16931Mapper" THEN "380" ELSE "INV")
    /\ lastOp = "mapTaxCategory"
            => returned.value = MapsTo(taxCategoryMap(args.mapper), args.input,
                                       IF args.mapper = "EN16931Mapper" THEN "S" ELSE "TAX")
    /\ lastOp = "mapAddressScheme"
            => returned.value = MapsTo(addressSchemeMap(args.mapper), args.input,
                                       IF args.mapper = "EN16931Mapper" THEN "9999" ELSE "OTHER")
    /\ lastOp = "mapOutputFormat"
            => returned.value = MapsTo(outputFormatMap(args.mapper), args.input,
                                       IF args.mapper = "EN16931Mapper" THEN "UBL" ELSE "XML")
    /\ (/\ lastOp = "reverseMapInvoiceType"
        /\ args.input \notin Codes(invoiceTypeMap(args.mapper)))
            => returned.value = "STANDARD"
    /\ (/\ lastOp = "reverseMapTaxCategory"
        /\ args.input \notin Codes(taxCategoryMap(args.mapper)))
            => returned.value = "STANDARD"

\* C18: getMapper(s) returns the mapper registered under the upper-cased s
\* and the EN16931 mapper when there is none; getMapperByCountry(c) returns the
\* mapper of the standard the country table gives c (US for US, CA and MX) and
\* the EN16931 mapper for a code without an entry; neither call throws.
MapperResolved ==
    /\ lastOp = "getMapper"
            => /\ lastError = NoError
               /\ returned.class =
                      IF toUpperCase(args.standard) \in DOMAIN mappers
                      THEN mappers[toUpperCase(args.standard)] ELSE "EN16931Mapper"
    /\ lastOp = "getMapperByCountry"
            => /\ lastError = NoError
               /\ returned.class =
                      IF args.standard \in {"US", "CA", "MX"} THEN mappers["US"]
                      ELSE IF HasOwn(countryMappers, args.standard) THEN mappers["EN16931"]
                      ELSE "EN16931Mapper"

\* C19 (as amended): the registry changes only by registerMapper(standard,
\* mapper), which binds the upper-cased standard to the mapper, adding the key
\* or replacing what it held, and leaves every other key as it was; getMapper,
\* getMapperByCountry and getAvailableStandards never change it.
RegistryChangesOnlyByRegister ==
    [][/\ lastOp' # "registerMapper" => mappers' = mappers
       /\ lastOp' = "registerMapper"
            => mappers' = [standard \in DOMAIN mappers \cup {toUpperCase(args'.standard)} |->
                              IF standard = toUpperCase(args'.standard)
                              THEN args'.mapper ELSE mappers[standard]]]_vars

\* C19 witness: a registration has replaced the mapper the key US held.
RegistrationReplaced ==
    /\ lastOp = "registerMapper"
    /\ args.standard = "us"
    /\ DefaultMappers["US"] = "USMapper"
    /\ mappers["US"] = "EN16931Mapper"

\* what every initially registered key, and a country of each kind, resolves to
Resolution(registry) ==
    << [standard \in DOMAIN DefaultMappers |-> getMapper(registry, standard)],
       [countryCode \in {"DE", "US", "ZZ"} |-> getMapperByCountry(registry, countryCode)] >>

\* C19 (as stated): no operation of MapperFactory changes which mapper an
\* initially registered key, or a country code, resolves to.
RegistryReadOnly == [][Resolution(mappers') = Resolution(mappers)]_vars

\* C20: a Party built by addIdentifier and removeIdentifier never holds two
\* identifiers with the same (scheme, value) pair; addIdentifier of a pair the
\* list holds and removeIdentifier of a pair it does not hold both throw and
\* leave the identifier list and the outbox as they were.
PartyIdentifiersUnique ==
    /\ [](\A i, j \in 1..Len(party.identifiers) :
              (/\ party.identifiers[i].scheme = party.identifiers[j].scheme
               /\ party.identifiers[i].identifier = party.identifiers[j].identifier)
                  => i = j)
    /\ [][/\ (/\ lastOp' = "addIdentifier"
              /\ \E i \in 1..Len(party.identifiers) :
                     /\ party.identifiers[i].scheme = args'.identifier.scheme
                     /\ party.identifiers[i].identifier = args'.identifier.identifier)
                 => lastError' # NoError /\ party' = party
          /\ (/\ lastOp' = "removeIdentifier"
              /\ \A i \in 1..Len(party.identifiers) :
                     \/ party.identifiers[i].scheme # args'.scheme
                     \/ party.identifiers[i].identifier # args'.identifier)
                 => lastError' # NoError /\ party' = party]_vars

\* C20 witness: a second object carrying a pair the list holds was refused
\* while the list and the outbox were not empty.
DuplicateIdentifierRefused ==
    /\ lastOp = "addIdentifier"
    /\ lastError = "Identifier ${identifier.scheme}:${identifier.identifier} already exists"
    /\ args.identifier.id = "id-4"
    /\ \E i \in 1..Len(party.identifiers) :
           /\ party.identifiers[i].id = "id-1"
           /\ party.identifiers[i].scheme = args.identifier.scheme
           /\ party.identifiers[i].identifier = args.identifier.identifier
    /\ Len(party.domainEvents) > 0

\* C21: a Party built by addBankAccount and removeBankAccount never holds two
\* bank accounts with the same account number; addBankAccount of a number the
\* list holds and removeBankAccount of a number it does not hold both throw
\* and leave the bank-account list and the outbox as they were.
BankAccountsUnique ==
    /\ [](\A i, j \in 1..Len(party.bankAccounts) :
              party.bankAccounts[i].accountNumber = party.bankAccounts[j].accountNumber
                  => i = j)
    /\ [][/\ (/\ lastOp' = "addBankAccount"
              /\ \E i \in 1..Len(party.bankAccounts) :
                     party.bankAccounts[i].accountNumber = args'.account.accountNumber)
                 => lastError' # NoError /\ party' = party
          /\ (/\ lastOp' = "removeBankAccount"
              /\ \A i \in 1..Len(party.bankAccounts) :
                     party.bankAccounts[i].accountNumber # args'.accountNumber)
                 => lastError' # NoError /\ party' = party]_vars

\* C21 witness: a second account carrying a number the list holds was refused
\* while the list and the outbox were not empty.
DuplicateBankAccountRefused ==
    /\ lastOp = "addBankAccount"
    /\ lastError = "Bank account ${account.accountNumber} already exists"
    /\ args.account.id = "acc-2"
    /\ \E i \in 1..Len(party.bankAccounts) :
           /\ party.bankAccounts[i].id = "acc-1"
           /\ party.bankAccounts[i].accountNumber = args.account.accountNumber
    /\ Len(party.domainEvents) > 0

\* the event type each mutating method of Party announces
PartyEventType(op) ==
    CASE op = "addIdentifier" -> "IDENTIFIER_ADDED"
      [] op = "removeIdentifier" -> "IDENTIFIER_REMOVED"
      [] op = "addAddress" -> "ADDRESS_ADDED"
      [] op = "updateAddress" -> "ADDRESS_UPDATED"
      [] op = "removeAddress" -> "ADDRESS_REMOVED"
      [] op = "addContactPerson" -> "CONTACT_PERSON_ADDED"
      [] op = "removeContactPerson" -> "CONTACT_PERSON_REMOVED"
      [] op = "addBankAccount" -> "BANK_ACCOUNT_ADDED"
      [] op = "removeBankAccount" -> "BANK_ACCOUNT_REMOVED"

\* C22: every successful mutating call on a Party appends exactly one event,
\* of the call's type, behind the events the outbox held; a call that throws
\* changes nothing; clearDomainEvents empties the outbox and changes nothing
\* else.  The outbox therefore holds one event per successful mutating call
\* since the last clearDomainEvents, in call order.
OutboxFollowsCalls ==
    [][IF lastError' # NoError THEN party' = party
       ELSE IF lastOp' = "clearDomainEvents"
            THEN party' = [party EXCEPT !.domainEvents = <<>>]
       ELSE /\ Len(party'.domainEvents) = Len(party.domainEvents) + 1
            /\ SubSeq(party'.domainEvents, 1, Len(party.domainEvents)) = party.domainEvents
            /\ party'.domainEvents[Len(party'.domainEvents)].eventType
                   = PartyEventType(lastOp')]_vars

\* C22 witness: the outbox holds the events of two calls in call order, and a
\* third call has failed without adding to it.
OutboxHoldsTwoCalls ==
    /\ lastOp = "removeAddress"
    /\ lastError = "Invalid address index"
    /\ Len(party.domainEvents) = 2
    /\ party.domainEvents[1].eventType = "ADDRESS_ADDED"
    /\ party.domainEvents[2].eventType = "ADDRESS_REMOVED"
    /\ party.addresses = <<>>

\* what a reader of the snapshot sees: its strings, and the fields of the
\* Address its reference leads to
SnapshotFields(s, objects) ==
    [s EXCEPT !.address = IF s.address = Undefined THEN <<>> ELSE <<objects[s.address]>>]

\* C23: createSnapshot returns without changing the Party, and no later call
\* on the Party changes what a snapshot already taken shows.
SnapshotDetached ==
    [][/\ lastOp' = "createSnapshot"
            => /\ lastError' = NoError
               /\ party' = party
               /\ snapshot' = createSnapshot(party)
       /\ (lastOp' # "createSnapshot" /\ snapshot # NoSnapshot)
            => /\ snapshot' = snapshot
               /\ SnapshotFields(snapshot', party'.heap)
                      = SnapshotFields(snapshot, party.heap)]_vars

\* C23 witness: the party's first address was replaced after a snapshot of
\* the party with an address and a contact had been taken.
SnapshotOutlivesUpdate ==
    /\ lastOp = "updateAddress"
    /\ lastError = NoError
    /\ args.index = 0
    /\ snapshot # NoSnapshot
    /\ snapshot.address = "addr-1"
    /\ snapshot.contactEmail = "ada@example.com"
    /\ party.addresses = <<"addr-2">>
    /\ party.contactPersons = <<>>

\* the domain event and the audit record each mutating method of Invoice writes
InvoiceEventType(op) ==
    CASE op = "addLineItem" -> <<"InvoiceLineItemAdded", "LINE_ITEM_ADDED">>
      [] op = "removeLineItem" -> <<"InvoiceLineItemRemoved", "LINE_ITEM_REMOVED">>
      [] op = "updateLineItem" -> <<"InvoiceLineItemUpdated", "LINE_ITEM_UPDATED">>
      [] op = "finalize" -> <<"InvoiceFinalized", "INVOICE_FINALIZED">>
      [] op = "send" -> <<"InvoiceSent", "INVOICE_SENT">>
      [] op = "applyPayment" -> <<"InvoicePaymentApplied", "PAYMENT_APPLIED">>
      [] op = "validate" -> <<"InvoiceValidated", "INVOICE_VALIDATED">>

ScalarArithmeticSound ==
    /\ (/\ lastOp \in {"Money.add", "Money.subtract"}
        /\ args.a.currency.code # args.b.currency.code) => lastError # NoError
    /\ (/\ lastOp \in {"Quantity.add", "Quantity.subtract"}
        /\ args.a.unitCode # args.b.unitCode) => lastError # NoError
    /\ (/\ lastOp \in {"Quantity.subtract", "Percentage.subtract"}
        /\ args.a.value < args.b.value) => lastError # NoError
    /\ (/\ lastOp = "Percentage.add"
        /\ args.a.value + args.b.value > 100 * Micro) => lastError # NoError
    /\ (/\ lastOp \in {"Money.divide", "Quantity.divide", "Percentage.divide"}
        /\ args.b.num = 0) => lastError # NoError
    /\ (/\ lastOp \in {"Money.add", "Money.subtract", "Money.multiply", "Money.divide"}
        /\ lastError = NoError)
          => /\ returned.currency = args.a.currency
             /\ decimalPlaces(returned.amount) <= returned.currency.decimalPlaces
    /\ (/\ lastOp \in {"Quantity.add", "Quantity.subtract", "Quantity.divide"}
        /\ lastError = NoError)
          => /\ returned.unitCode = args.a.unitCode
             /\ returned.value >= 0
    /\ (/\ lastOp \in {"Percentage.add", "Percentage.subtract", "Percentage.divide"}
        /\ lastError = NoError)
          => /\ returned.value >= 0
             /\ returned.value <= 100 * Micro
             /\ decimalPlaces(returned.value) <= PercentageMaxDecimalPlaces

\* a Quantity.subtract whose difference is below zero has thrown
NegativeQuantityRefused ==
    /\ lastOp = "Quantity.subtract"
    /\ args.a.unitCode = args.b.unitCode
    /\ args.a.value < args.b.value
    /\ lastError = "Quantity cannot be negative"

\* the category and the rate agree, and a required exemption reason is given
CouplingRule(a) ==
    /\ requiresTaxRate(a.taxCategory) <=> a.taxRate.value # 0
    /\ requiresExemptionReason(a.taxCategory) => a.exemptionReason # Undefined

\* an allowance of exactly percentage / 100 of its base amount
ExactlyComputed(c) ==
    /\ c.percentage # Absent
    /\ c.baseAmount # Absent
    /\ c.amount.currency = c.baseAmount.currency
    /\ c.amount.amount >= 0
    /\ (c.baseAmount.amount * rateFactor(c.percentage).num) % rateFactor(c.percentage).den = 0
    /\ c.amount.amount
         = (c.baseAmount.amount * rateFactor(c.percentage).num) \div rateFactor(c.percentage).den
    /\ c.taxCategory # Absent => c.taxRate # Absent

\* C27: in a currency of any scale from 0 to 4, TaxBreakdown.calculate with a
\* category and rate that satisfy the coupling rule, and an AllowanceCharge
\* whose amount is exactly its percentage of its base amount, construct
\* without an error.
ToleranceNeverFails ==
    /\ (lastOp = "TaxBreakdown.calculate" /\ CouplingRule(args)) => lastError = NoError
    /\ (lastOp = "new AllowanceCharge" /\ ExactlyComputed(args)) => lastError = NoError

\* the same for the currencies of two decimal places or more
ToleranceNeverFailsFromTwoPlaces ==
    /\ (/\ lastOp = "TaxBreakdown.calculate"
        /\ CouplingRule(args)
        /\ args.taxableAmount.currency.decimalPlaces >= 2) => lastError = NoError
    /\ (/\ lastOp = "new AllowanceCharge"
        /\ ExactlyComputed(args)
        /\ args.amount.currency.decimalPlaces >= 2) => lastError = NoError

\* C26: an updateLineItem call that fails (unknown id, finalized invoice, or
\* updates that make the item invalid) leaves the targeted line item, the
\* line-item list, the totals, the outbox and the history as they were.
FailedUpdateChangesNothing ==
    [][(lastOp' = "updateLineItem" /\ lastError' # NoError) =>
          /\ heap' = heap
          /\ lineItems' = lineItems
          /\ totals' = totals
          /\ domainEvents' = domainEvents
          /\ history' = history]_vars

LineItemIdsUnique ==
    \A i, j \in 1..Len(lineItems) :
        i # j => heap[lineItems[i]].id # heap[lineItems[j]].id

\* C30: applyPayment rejects a payment whose amount is zero or negative,
\* whose payment date is missing, or whose currency is not the invoice's: no
\* such payment is ever recorded, and a rejected call leaves paymentStatus,
\* the outbox and the history as they were.
PaymentsGuarded ==
    /\ [](\A i \in 1..Len(history) :
            history[i].eventType = "PAYMENT_APPLIED" =>
                /\ history[i].data.payment.amount.amount > 0
                /\ history[i].data.payment.paymentDate # Undefined
                /\ history[i].data.payment.amount.currency = currency)
    /\ [][(lastOp' = "applyPayment" /\ lastError' # NoError) =>
             /\ paymentStatus' = paymentStatus
             /\ domainEvents' = domainEvents
             /\ history' = history]_vars

\* the same without the currency
PaymentsGuardedButCurrency ==
    /\ [](\A i \in 1..Len(history) :
            history[i].eventType = "PAYMENT_APPLIED" =>
                /\ history[i].data.payment.amount.amount > 0
                /\ history[i].data.payment.paymentDate # Undefined)
    /\ [][(lastOp' = "applyPayment" /\ lastError' # NoError) =>
             /\ paymentStatus' = paymentStatus
             /\ domainEvents' = domainEvents
             /\ history' = history]_vars
====
